---------------------------- MODULE Spec2Model ----------------------------
(***************************************************************************)
(* Model of the transcript-analysis pipeline of Context-Sensei-BE:         *)
(* TextAnalyzer (src/src/utils/textAnalysis.ts) and the AIAnalyzer it      *)
(* delegates to (src/unnamed/part_007).                                    *)
(*                                                                         *)
(* Text.  A string is the sequence of its characters, each a one-char     *)
(* TLA+ string; string literals are written as words (w_fix, ...) joined   *)
(* with single blanks by Join.  Whitespace is the blank and the newline.   *)
(*                                                                         *)
(* Dates.  A DateTime is a day number, day 0 being 2025-01-01; a formatted *)
(* date ('yyyy-MM-dd') is a triple <<year, month, day>>.                   *)
(***************************************************************************)
EXTENDS Integers, Sequences, FiniteSets, TLC

VARIABLES
    \* ---- deduplicateAndMergeTasks applied to a task list ----
    mergePc,        \* "input" | "merged" | "remerged"
    tasksIn,        \* the list handed to deduplicateAndMergeTasks
    merged,         \* its result
    remerged,       \* the result of merging the result again
    \* ---- the analyzer's date state and one call of extractDate ----
    dateContext,    \* this.dateContext: the meeting date, a day number
    now,            \* DateTime.local().startOf('day'): the processing date
    datePc,         \* "idle" | "call" | "returned"
    fragment,       \* the text handed to extractDate
    resolved,       \* its result: <<day number>>, or <<>> for null
    \* ---- a TextAnalyzer ----
    text,           \* this.text
    apiKey,         \* huggingFaceApiKey: <<>> when none is passed
    ctor,           \* "absent" | "none" | "ok" | "threw": the constructor's outcome
    employeeNames,  \* this.employeeNames: code -> name
    \* ---- one run of extractTasks ----
    extractPc,      \* "idle" | "decisions" | "utterances" | "done"
    dialogues,      \* parseDialogue()
    index,          \* the forEach index, 1-based
    inDecisionList,
    lastSpeaker,
    tasks,          \* the Map tasks: assignee -> list of tasks
    \* ---- one run of analyze ----
    analyzePc,      \* "idle" | "running" | "returned" | "threw"
    candidates,     \* identifyTasks: the tasks handed to validation
    decisions,      \* extractKeyPoints: the decisions handed to validation
    queries,        \* the provider calls: call -> "pending" | "yes" | "no" | "failed"
    employeeTaskMap,\* analyze's Map, in insertion order: << <<assignee, tasks>>, ... >>
    analysis        \* what analyze returns, <<>> before

mergeVars == <<mergePc, tasksIn, merged, remerged>>

dateVars == <<dateContext, now, datePc, fragment, resolved>>

objectVars == <<text, apiKey, ctor, employeeNames>>

extractVars == <<extractPc, dialogues, index, inDecisionList, lastSpeaker, tasks>>

analyzeVars == <<analyzePc, candidates, decisions, queries, employeeTaskMap, analysis>>

vars == <<mergeVars, dateVars, objectVars, extractVars, analyzeVars>>

-----------------------------------------------------------------------------
(* Characters and words *)

Min(a, b) == IF a < b THEN a ELSE b

Max(a, b) == IF a > b THEN a ELSE b

Range(s) == {s[i] : i \in DOMAIN s}

\* String.prototype.toLowerCase on one character
LowerChar(c) ==
    CASE c = "A" -> "a" [] c = "B" -> "b" [] c = "C" -> "c" [] c = "D" -> "d"
      [] c = "E" -> "e" [] c = "F" -> "f" [] c = "G" -> "g" [] c = "H" -> "h"
      [] c = "I" -> "i" [] c = "J" -> "j" [] c = "K" -> "k" [] c = "L" -> "l"
      [] c = "M" -> "m" [] c = "N" -> "n" [] c = "O" -> "o" [] c = "P" -> "p"
      [] c = "Q" -> "q" [] c = "R" -> "r" [] c = "S" -> "s" [] c = "T" -> "t"
      [] c = "U" -> "u" [] c = "V" -> "v" [] c = "W" -> "w" [] c = "X" -> "x"
      [] c = "Y" -> "y" [] c = "Z" -> "z" [] OTHER -> c

\* String.prototype.toUpperCase on one character
UpperChar(c) ==
    CASE c = "a" -> "A" [] c = "b" -> "B" [] c = "c" -> "C" [] c = "d" -> "D"
      [] c = "e" -> "E" [] c = "f" -> "F" [] c = "g" -> "G" [] c = "h" -> "H"
      [] c = "i" -> "I" [] c = "j" -> "J" [] c = "k" -> "K" [] c = "l" -> "L"
      [] c = "m" -> "M" [] c = "n" -> "N" [] c = "o" -> "O" [] c = "p" -> "P"
      [] c = "q" -> "Q" [] c = "r" -> "R" [] c = "s" -> "S" [] c = "t" -> "T"
      [] c = "u" -> "U" [] c = "v" -> "V" [] c = "w" -> "W" [] c = "x" -> "X"
      [] c = "y" -> "Y" [] c = "z" -> "Z" [] OTHER -> c

\* String.prototype.toLowerCase
Lower(s) == [i \in DOMAIN s |-> LowerChar(s[i])]

\* String.prototype.toUpperCase
Upper(s) == [i \in DOMAIN s |-> UpperChar(s[i])]

RECURSIVE Join(_)
\* Array.prototype.join(' '): the strings of ws with one blank between two
Join(ws) ==
    IF ws = <<>> THEN <<>>
    ELSE IF Len(ws) = 1 THEN ws[1]
    ELSE ws[1] \o <<" ">> \o Join(Tail(ws))

RECURSIVE BlankRunEnd(_, _)
\* the last position of the run of whitespace that starts at p (p - 1: none)
BlankRunEnd(s, p) ==
    IF p <= Len(s) /\ s[p] = " " THEN BlankRunEnd(s, p + 1) ELSE p - 1

RECURSIVE SplitFrom(_, _, _, _)
SplitFrom(s, p, cur, acc) ==
    IF p > Len(s) THEN Append(acc, cur)
    ELSE IF s[p] = " " THEN SplitFrom(s, BlankRunEnd(s, p) + 1, <<>>, Append(acc, cur))
    ELSE SplitFrom(s, p + 1, Append(cur, s[p]), acc)

\* String.prototype.split(/\s+/): a leading or trailing blank gives an empty
\* first or last piece, and the empty string gives [""]
Split(s) == SplitFrom(s, 1, <<>>, <<>>)

RECURSIVE TrimLeft(_)
TrimLeft(s) == IF s # <<>> /\ Head(s) = " " THEN TrimLeft(Tail(s)) ELSE s

RECURSIVE TrimRight(_)
TrimRight(s) ==
    IF s # <<>> /\ s[Len(s)] = " " THEN TrimRight(SubSeq(s, 1, Len(s) - 1)) ELSE s

\* String.prototype.trim
Trim(s) == TrimRight(TrimLeft(s))

-----------------------------------------------------------------------------
(* Regular expressions over the characters of a string *)

Digits == {"0", "1", "2", "3", "4", "5", "6", "7", "8", "9"}

Letters ==
    {"a", "b", "c", "d", "e", "f", "g", "h", "i", "j", "k", "l", "m",
     "n", "o", "p", "q", "r", "s", "t", "u", "v", "w", "x", "y", "z"}

IsDigit(c) == c \in Digits

\* the class \w
IsWordChar(c) == LowerChar(c) \in Letters \/ c \in Digits \/ c = "_"

DigitVal(c) ==
    CASE c = "0" -> 0 [] c = "1" -> 1 [] c = "2" -> 2 [] c = "3" -> 3
      [] c = "4" -> 4 [] c = "5" -> 5 [] c = "6" -> 6 [] c = "7" -> 7
      [] c = "8" -> 8 [] c = "9" -> 9

RECURSIVE ParseInt(_)
\* parseInt of a run of digits
ParseInt(ds) ==
    IF ds = <<>> THEN 0
    ELSE ParseInt(SubSeq(ds, 1, Len(ds) - 1)) * 10 + DigitVal(ds[Len(ds)])

\* the literal lit (in lower case) stands at position p of s, under flag i
LitAt(s, p, lit) ==
    /\ p >= 1
    /\ p + Len(lit) - 1 <= Len(s)
    /\ \A i \in 1..Len(lit) : LowerChar(s[p + i - 1]) = lit[i]

RECURSIVE WordRunEnd(_, _)
\* the last position of the run of \w characters that starts at p (p - 1: none)
WordRunEnd(s, p) ==
    IF p <= Len(s) /\ IsWordChar(s[p]) THEN WordRunEnd(s, p + 1) ELSE p - 1

RECURSIVE DigitRunEnd(_, _)
DigitRunEnd(s, p) ==
    IF p <= Len(s) /\ IsDigit(s[p]) THEN DigitRunEnd(s, p + 1) ELSE p - 1

\* the least element of a non-empty set of positions
Least(S) == CHOOSE k \in S : \A j \in S : k <= j

Greatest(S) == CHOOSE k \in S : \A j \in S : k >= j

c_day == <<"d", "a", "y">>

\* the group (\w+day) matched at position q: \w+ is greedy, so the group ends
\* at the last "day" of the run of word characters; <<>> when it cannot match
DayGroupAt(s, q) ==
    LET e == WordRunEnd(s, q)
        ends == {k \in (q + 1)..(e - 2) : LitAt(s, k, c_day)}
    IN  IF ends = {} THEN <<>> ELSE SubSeq(s, q, Greatest(ends) + 2)

\* text.match(/<lead> (\w+day)/i): group 1 of the leftmost match, or <<>>
MatchLeadDay(s, lead) ==
    LET starts == {p \in 1..Len(s) :
                     /\ LitAt(s, p, lead \o <<" ">>)
                     /\ DayGroupAt(s, p + Len(lead) + 1) # <<>>}
    IN  IF starts = {} THEN <<>>
        ELSE DayGroupAt(s, Least(starts) + Len(lead) + 1)

\* str.replace(pat, rep): the first occurrence of pat replaced
ReplaceFirstWith(s, pat, rep) ==
    LET at == {p \in 1..Len(s) : p + Len(pat) - 1 <= Len(s)
                                 /\ SubSeq(s, p, p + Len(pat) - 1) = pat}
    IN  IF at = {} THEN s
        ELSE SubSeq(s, 1, Least(at) - 1) \o rep
               \o SubSeq(s, Least(at) + Len(pat), Len(s))

\* str.replace(pat, '')
ReplaceFirst(s, pat) == ReplaceFirstWith(s, pat, <<>>)

\* the regex ^(?:phrase)\s+ with flag i matches s
StartsWithPhrase(s, phrase) ==
    /\ LitAt(s, 1, phrase)
    /\ Len(s) > Len(phrase)
    /\ s[Len(phrase) + 1] = " "

\* s.replace(/^(?:p1|p2|...)\s+/i, '') for the sequence of phrases ps
StripPrefix(s, ps) ==
    LET hits == {k \in DOMAIN ps : StartsWithPhrase(s, ps[k])}
    IN  IF hits = {} THEN s
        ELSE SubSeq(s, BlankRunEnd(s, Len(ps[Least(hits)]) + 1) + 1, Len(s))

-----------------------------------------------------------------------------
(* Vocabulary *)

w_please == <<"p","l","e","a","s","e">>
w_can    == <<"c","a","n">>
w_could  == <<"c","o","u","l","d">>
w_would  == <<"w","o","u","l","d">>
w_you    == <<"y","o","u">>
w_ill    == <<"i","'","l","l">>
w_i      == <<"i">>
w_will   == <<"w","i","l","l">>
w_going  == <<"g","o","i","n","g">>
w_plan   == <<"p","l","a","n">>
w_to     == <<"t","o">>
w_and    == <<"a","n","d">>
w_then   == <<"t","h","e","n">>

w_update  == <<"u","p","d","a","t","e">>
w_cache   == <<"c","a","c","h","e">>
w_review  == <<"r","e","v","i","e","w">>
w_docs    == <<"d","o","c","s">>
w_keys    == <<"k","e","y","s">>
w_warmup  == <<"w","a","r","m","u","p">>
w_Update  == <<"U","p","d","a","t","e">>
w_Cache   == <<"C","a","c","h","e">>
w_Ill     == <<"I","'","l","l">>
w_Please  == <<"P","l","e","a","s","e">>

-----------------------------------------------------------------------------
(* Calendar: luxon's DateTime.fromISO / toFormat('yyyy-MM-dd') *)

EpochYear == 2025

IsLeap(y) == (y % 4 = 0 /\ y % 100 # 0) \/ y % 400 = 0

DaysInYear(y) == IF IsLeap(y) THEN 366 ELSE 365

DaysInMonth(y, m) ==
    IF m = 2 THEN (IF IsLeap(y) THEN 29 ELSE 28)
    ELSE IF m \in {4, 6, 9, 11} THEN 30 ELSE 31

RECURSIVE DaysBeforeYear(_)
\* the days from 1 January of the epoch year to 1 January of year y
DaysBeforeYear(y) ==
    IF y = EpochYear THEN 0
    ELSE IF y > EpochYear THEN DaysInYear(y - 1) + DaysBeforeYear(y - 1)
    ELSE DaysBeforeYear(y + 1) - DaysInYear(y)

RECURSIVE DaysBeforeMonth(_, _)
DaysBeforeMonth(y, m) ==
    IF m <= 1 THEN 0 ELSE DaysInMonth(y, m - 1) + DaysBeforeMonth(y, m - 1)

\* the isValid of a parsed <<year, month, day>>
IsValidISO(s) ==
    /\ s[2] \in 1..12
    /\ s[3] \in 1..DaysInMonth(s[1], s[2])

\* DateTime.fromISO(s), for a valid s: the day number
FromISO(s) == DaysBeforeYear(s[1]) + DaysBeforeMonth(s[1], s[2]) + (s[3] - 1)

RECURSIVE YearOf(_, _)
YearOf(n, y) ==
    IF n < 0 THEN YearOf(n + DaysInYear(y - 1), y - 1)
    ELSE IF n < DaysInYear(y) THEN <<y, n>>
    ELSE YearOf(n - DaysInYear(y), y + 1)

RECURSIVE MonthOf(_, _, _)
MonthOf(n, y, m) ==
    IF n < DaysInMonth(y, m) THEN <<m, n + 1>> ELSE MonthOf(n - DaysInMonth(y, m), y, m + 1)

\* dt.toFormat('yyyy-MM-dd')
ToFormat(n) ==
    LET yr == YearOf(n, EpochYear)
        md == MonthOf(yr[2], yr[1], 1)
    IN  <<yr[1], md[1], md[2]>>

\* dt.weekday: 1 = Monday .. 7 = Sunday (2025-01-01 is a Wednesday)
Weekday(n) == ((n + 2) % 7) + 1

-----------------------------------------------------------------------------
(* extractDate *)

\* private weekdays: the keys are the full day names
weekdays ==
    ( <<"s","u","n","d","a","y">>         :> 7 ) @@
    ( <<"m","o","n","d","a","y">>         :> 1 ) @@
    ( <<"t","u","e","s","d","a","y">>     :> 2 ) @@
    ( <<"w","e","d","n","e","s","d","a","y">> :> 3 ) @@
    ( <<"t","h","u","r","s","d","a","y">> :> 4 ) @@
    ( <<"f","r","i","d","a","y">>         :> 5 ) @@
    ( <<"s","a","t","u","r","d","a","y">> :> 6 )

\* the mutation: the captured day name is looked up as it is
WeekdayOf_FullName(match) ==
    LET day == [i \in DOMAIN match |-> LowerChar(match[i])]
    IN  IF day \in DOMAIN weekdays THEN weekdays[day] ELSE 0

\* this.weekdays[match.toLowerCase().replace('day', '')]; 0 for undefined
WeekdayOf(match) ==
    LET day == [i \in DOMAIN match |-> LowerChar(match[i])]
        key == ReplaceFirst(day, c_day)
    IN  IF key \in DOMAIN weekdays THEN weekdays[key] ELSE 0

\* dt.set({ weekday }): that day of dt's own ISO week (Monday first)
SetWeekday(n, weekday) == n - (Weekday(n) - 1) + (weekday - 1)

\* handler of /by (\w+day)/i; <<>> is null
ByWeekday(match, ctx) ==
    LET weekday == WeekdayOf(match)
        targetDay == SetWeekday(ctx, weekday)
    IN  IF weekday # 0
        THEN (IF targetDay < ctx THEN <<targetDay + 7>> ELSE <<targetDay>>)
        ELSE <<>>

\* handler of /next (\w+day)/i
NextWeekday(match, ctx) ==
    LET weekday == WeekdayOf(match)
    IN  IF weekday # 0 THEN <<SetWeekday(ctx, weekday) + 7>> ELSE <<>>

\* text.match(/(\d{4}-\d{2}-\d{2})/): <<year, month, day>> of the leftmost
\* match, or <<>>
IsoShapeAt(s, p) ==
    /\ p + 9 <= Len(s)
    /\ \A i \in {0, 1, 2, 3, 5, 6, 8, 9} : IsDigit(s[p + i])
    /\ s[p + 4] = "-"
    /\ s[p + 7] = "-"

MatchISO(s) ==
    LET at == {p \in 1..Len(s) : IsoShapeAt(s, p)}
    IN  IF at = {} THEN <<>>
        ELSE LET p == Least(at)
             IN  << ParseInt(SubSeq(s, p, p + 3)), ParseInt(SubSeq(s, p + 5, p + 6)),
                    ParseInt(SubSeq(s, p + 8, p + 9)) >>

c_in == <<"i", "n", " ">>

Units == << <<"d","a","y">>, <<"w","e","e","k">>, <<"m","o","n","t","h">> >>

\* /in (\d+) (day|week|month)s?/i matches at p
InAmountAt(s, p) ==
    /\ LitAt(s, p, c_in)
    /\ DigitRunEnd(s, p + 3) >= p + 3
    /\ LitAt(s, DigitRunEnd(s, p + 3) + 1, <<" ">>)
    /\ \E u \in 1..3 : LitAt(s, DigitRunEnd(s, p + 3) + 2, Units[u])

\* dt.plus({ months: k }): the same day of the month, clamped to the month's end
PlusMonths(n, k) ==
    LET d  == ToFormat(n)
        m0 == (d[2] - 1) + k
        y  == d[1] + (m0 \div 12)
        m  == (m0 % 12) + 1
    IN  FromISO(<<y, m, Min(d[3], DaysInMonth(y, m))>>)

\* handler of /in (\d+) (day|week|month)s?/i at its leftmost match
InAmount(s, ctx) ==
    LET p == Least({q \in 1..Len(s) : InAmountAt(s, q)})
        e == DigitRunEnd(s, p + 3)
        amount == ParseInt(SubSeq(s, p + 3, e))
        u == CHOOSE v \in 1..3 : LitAt(s, e + 2, Units[v])
    IN  IF u = 1 THEN <<ctx + amount>>
        ELSE IF u = 2 THEN <<ctx + 7 * amount>>
        ELSE <<PlusMonths(ctx, amount)>>

\* the alternatives of /(today|tomorrow|next week|next month|end of week|end of month)/i
RelativeTerms ==
    << <<"t","o","d","a","y">>, <<"t","o","m","o","r","r","o","w">>,
       <<"n","e","x","t"," ","w","e","e","k">>, <<"n","e","x","t"," ","m","o","n","t","h">>,
       <<"e","n","d"," ","o","f"," ","w","e","e","k">>,
       <<"e","n","d"," ","o","f"," ","m","o","n","t","h">> >>

RelativeTermAt(s, p) == \E k \in 1..6 : LitAt(s, p, RelativeTerms[k])

StartOfMonth(n) == LET d == ToFormat(n) IN FromISO(<<d[1], d[2], 1>>)

EndOfMonth(n) == LET d == ToFormat(n) IN FromISO(<<d[1], d[2], DaysInMonth(d[1], d[2])>>)

\* handler of the named relative terms at the leftmost match
RelativeTerm(s, ctx) ==
    LET p == Least({q \in 1..Len(s) : RelativeTermAt(s, q)})
        k == Least({j \in 1..6 : LitAt(s, p, RelativeTerms[j])})
    IN  CASE k = 1 -> <<ctx>>
          [] k = 2 -> <<ctx + 1>>
          [] k = 3 -> <<SetWeekday(ctx + 7, 1)>>
          [] k = 4 -> <<StartOfMonth(PlusMonths(ctx, 1))>>
          [] k = 5 -> <<SetWeekday(ctx, 7)>>
          [] k = 6 -> <<EndOfMonth(ctx)>>

\* the month names of luxon's MMMM, in lower case
MonthNames ==
    << <<"j","a","n","u","a","r","y">>, <<"f","e","b","r","u","a","r","y">>,
       <<"m","a","r","c","h">>, <<"a","p","r","i","l">>, <<"m","a","y">>,
       <<"j","u","n","e">>, <<"j","u","l","y">>, <<"a","u","g","u","s","t">>,
       <<"s","e","p","t","e","m","b","e","r">>, <<"o","c","t","o","b","e","r">>,
       <<"n","o","v","e","m","b","e","r">>, <<"d","e","c","e","m","b","e","r">> >>

\* jan(?:uary)?|feb(?:ruary)?|...: the last position of the month at q, or 0
MonthEndAt(s, q) ==
    LET ms == {m \in 1..12 : LitAt(s, q, SubSeq(MonthNames[m], 1, 3))}
    IN  IF ms = {} THEN 0
        ELSE LET m == Least(ms)
             IN  IF LitAt(s, q, MonthNames[m]) THEN q + Len(MonthNames[m]) - 1 ELSE q + 2

OrdinalSuffixes == { <<"s","t">>, <<"n","d">>, <<"r","d">>, <<"t","h">> }

\* (?:,? \d{4})? after the month that ends at e, the optional comma skipped
\* to y1: the last position of the group
YearEndAt(s, e, y1) ==
    IF LitAt(s, y1, <<" ">>) /\ DigitRunEnd(s, y1 + 1) >= y1 + 4 THEN y1 + 4 ELSE e

\* the month and the optional year, the month's last position being e (0: none)
MonthYearEndAt(s, e) ==
    IF e = 0 THEN 0
    ELSE YearEndAt(s, e, IF LitAt(s, e + 1, <<",">>) THEN e + 2 ELSE e + 1)

\* (?: of)? at a1: the position after it
SkipOf(s, a1) == IF LitAt(s, a1, <<" ","o","f">>) THEN a1 + 3 ELSE a1

\* (?:st|nd|rd|th)? at a: the position after it
SkipOrdinal(s, a) == IF \E x \in OrdinalSuffixes : LitAt(s, a, x) THEN a + 2 ELSE a

\* the blank and the rest of the group from a2 on
BlankMonthYearEndAt(s, a2) ==
    IF LitAt(s, a2, <<" ">>) THEN MonthYearEndAt(s, MonthEndAt(s, a2 + 1)) ELSE 0

\* the group \d{1,2}(?:st|nd|rd|th)?(?: of)? <month>(?:,? \d{4})? at g:
\* its last position, or 0
MonthDateEndAt(s, g) ==
    IF DigitRunEnd(s, g) - g + 1 \in {1, 2}
    THEN BlankMonthYearEndAt(s, SkipOf(s, SkipOrdinal(s, DigitRunEnd(s, g) + 1)))
    ELSE 0

DateLeads == { <<"b","y">>, <<"o","n">>, <<"b","e","f","o","r","e">> }

\* group 1 from g on: <<first, last>>, or <<>>
MonthDateGroup(g, e) == IF e = 0 THEN <<>> ELSE <<g, e>>

\* (?:the )? at g0: the position after it
SkipThe(s, g0) == IF LitAt(s, g0, <<"t","h","e"," ">>) THEN g0 + 4 ELSE g0

\* the lead (by|on|before) that is at p, or <<>>
DateLeadAt(s, p) ==
    IF \E l \in DateLeads : LitAt(s, p, l \o <<" ">>)
    THEN CHOOSE l \in DateLeads : LitAt(s, p, l \o <<" ">>)
    ELSE <<>>

MonthDateFrom(s, g) == MonthDateGroup(g, MonthDateEndAt(s, g))

MonthDateAfter(s, p, lead) ==
    IF lead = <<>> THEN <<>> ELSE MonthDateFrom(s, SkipThe(s, p + Len(lead) + 1))

\* (?:by|on|before) (?:the )?(...) at p: <<first, last>> of group 1, or <<>>
MonthDateAt(s, p) == MonthDateAfter(s, p, DateLeadAt(s, p))

\* .replace(/(st|nd|rd|th)/, ''): the leftmost of the four removed
RemoveOrdinal(c) ==
    LET at == {p \in 1..Len(c) : \E x \in OrdinalSuffixes : LitAt(c, p, x)}
    IN  IF at = {} THEN c
        ELSE SubSeq(c, 1, Least(at) - 1) \o SubSeq(c, Least(at) + 2, Len(c))

\* DateTime.fromFormat(c, 'd MMMM yyyy') (withYear) or (c, 'd MMMM'):
\* <<year, month, day>>, the year 0 when the format has none; <<>> when c
\* does not have the format
FromFormatDayMonth(c, withYear) ==
    LET dl == DigitRunEnd(c, 1)
        ms == {m \in 1..12 : LitAt(c, dl + 2, MonthNames[m])}
        m  == Least(ms)
        e  == dl + 1 + Len(MonthNames[m])
    IN  IF dl \notin {1, 2} \/ ~LitAt(c, dl + 1, <<" ">>) \/ ms = {} THEN <<>>
        ELSE IF withYear
        THEN (IF LitAt(c, e + 1, <<" ">>) /\ DigitRunEnd(c, e + 2) = e + 5 /\ Len(c) = e + 5
              THEN <<ParseInt(SubSeq(c, e + 2, e + 5)), m, ParseInt(SubSeq(c, 1, dl))>>
              ELSE <<>>)
        ELSE (IF Len(c) = e THEN <<0, m, ParseInt(SubSeq(c, 1, dl))>> ELSE <<>>)

\* parsed.set({ year }): the day clamped to the month's end
InYear(short, year) ==
    FromISO(<<year, short[2], Min(short[3], DaysInMonth(year, short[2]))>>)

\* if (parsed < dateContext) parsed = parsed.plus({ years: 1 })
OrNextYear(inCtx, next, ctx) == IF inCtx < ctx THEN <<next>> ELSE <<inCtx>>

\* the handler on the two parses of the cleaned date
MonthDateOf(full, short, ctxYear, nowYear, ctx) ==
    IF full # <<>> /\ IsValidISO(full) THEN <<FromISO(full)>>
    ELSE IF full = <<>> /\ short # <<>> /\ IsValidISO(<<nowYear, short[2], short[3]>>)
    THEN OrNextYear(InYear(short, ctxYear), InYear(short, ctxYear + 1), ctx)
    ELSE <<>>

MonthDateCleaned(cleanedDate, ctx, today) ==
    MonthDateOf(FromFormatDayMonth(cleanedDate, TRUE), FromFormatDayMonth(cleanedDate, FALSE),
                ToFormat(ctx)[1], ToFormat(today)[1], ctx)

\* handler of the month-name dates, on group 1 of the match
MonthDate(match, ctx, today) ==
    MonthDateCleaned(ReplaceFirstWith(RemoveOrdinal(Lower(match)), <<" ","o","f"," ">>, <<" ">>),
                     ctx, today)

\* if (match) result = handler(match[1]), for the two weekday patterns
ByWeekdayIf(match, ctx) == IF match = <<>> THEN <<>> ELSE ByWeekday(match, ctx)

NextWeekdayIf(match, ctx) == IF match = <<>> THEN <<>> ELSE NextWeekday(match, ctx)

MonthDateIf(s, g, ctx, today) ==
    IF g = <<>> THEN <<>> ELSE MonthDate(SubSeq(s, g[1], g[2]), ctx, today)

\* group 1 of the leftmost match of the month-name pattern, or <<>>
MonthDateMatch(s, at) == IF at = {} THEN <<>> ELSE MonthDateAt(s, Least(at))

\* the k-th relative pattern: its handler's result when its regex matches
RelativePattern(s, ctx, today, k) ==
    CASE k = 1 -> ByWeekdayIf(MatchLeadDay(s, <<"b","y">>), ctx)
      [] k = 2 -> NextWeekdayIf(MatchLeadDay(s, <<"n","e","x","t">>), ctx)
      [] k = 3 -> IF \E q \in 1..Len(s) : InAmountAt(s, q)
                  THEN InAmount(s, ctx) ELSE <<>>
      [] k = 4 -> IF \E q \in 1..Len(s) : RelativeTermAt(s, q)
                  THEN RelativeTerm(s, ctx) ELSE <<>>
      [] k = 5 -> MonthDateIf(s, MonthDateMatch(s, {q \in 1..Len(s) : MonthDateAt(s, q) # <<>>}),
                              ctx, today)

\* a || b on dates
OrElse(a, b) == IF a # <<>> THEN a ELSE b

\* the relative patterns from the k-th on: the first whose regex matches and
\* whose handler gives a valid date
RECURSIVE RelativePatterns(_, _, _, _)
RelativePatterns(s, ctx, today, k) ==
    IF k > 5 THEN <<>>
    ELSE OrElse(RelativePattern(s, ctx, today, k), RelativePatterns(s, ctx, today, k + 1))

\* extractDate(text) with this.dateContext = ctx and DateTime.local() = today:
\* <<day number>>, or <<>> for null
extractDate(str, ctx, today) ==
    LET s == str
        isoMatch == MatchISO(s)
    IN  IF isoMatch # <<>> /\ IsValidISO(isoMatch) THEN <<FromISO(isoMatch)>>
        ELSE RelativePatterns(s, ctx, today, 1)

-----------------------------------------------------------------------------
(* TextAnalyzer: construction *)

Uppers == {UpperChar(c) : c \in Letters}

IsUpper(c) == c \in Uppers

IsLowerLetter(c) == c \in Letters

\* the class \s: the blank and the line break
IsSpace(c) == c = " " \/ c = "\n"

RECURSIVE LowerRunEnd(_, _)
\* the last position of the run of [a-z] that starts at p (p - 1: none)
LowerRunEnd(s, p) ==
    IF p <= Len(s) /\ IsLowerLetter(s[p]) THEN LowerRunEnd(s, p + 1) ELSE p - 1

\* [A-Z][a-z]+ at p: its last position, or 0
CapitalizedEndAt(s, p) ==
    IF p <= Len(s) /\ IsUpper(s[p]) /\ LowerRunEnd(s, p + 1) >= p + 1
    THEN LowerRunEnd(s, p + 1) ELSE 0

\* /([A-Z]{2}):\s/ at p
InlineCodeAt(s, p) ==
    /\ p + 3 <= Len(s)
    /\ IsUpper(s[p]) /\ IsUpper(s[p + 1])
    /\ s[p + 2] = ":"
    /\ IsSpace(s[p + 3])

\* " (XX)" after the name that is s[p..e2]: <<name, code>>, or <<>>
RosterCodeAt(s, p, e2) ==
    IF e2 # 0 /\ e2 + 5 <= Len(s) /\ s[e2 + 1] = " " /\ s[e2 + 2] = "("
       /\ IsUpper(s[e2 + 3]) /\ IsUpper(s[e2 + 4]) /\ s[e2 + 5] = ")"
    THEN <<SubSeq(s, p, e2), SubSeq(s, e2 + 3, e2 + 4)>>
    ELSE <<>>

\* " [A-Z][a-z]+" after the first name that ends at e1: its last position, or 0
SecondNameEndAt(s, e1) ==
    IF e1 = 0 \/ e1 + 1 > Len(s) \/ s[e1 + 1] # " " THEN 0
    ELSE CapitalizedEndAt(s, e1 + 2)

\* /([A-Z][a-z]+ [A-Z][a-z]+) \(([A-Z]{2})\)/ at p: <<name, code>>, or <<>>
RosterAt(s, p) == RosterCodeAt(s, p, SecondNameEndAt(s, CapitalizedEndAt(s, p)))

\* the roster entries of s: the set of <<position, <<name, code>>>>
RosterEntries(s) ==
    {e \in {<<q, RosterAt(s, q)>> : q \in 1..Len(s)} : e[2] # <<>>}

\* the name of the last roster entry with the code
LastRosterName(entries, code) ==
    (CHOOSE e \in entries :
        e[2][2] = code /\ \A f \in entries : f[2][2] = code => f[1] <= e[1])[2][1]

\* the Map after the inline codes (code -> code) and then the roster
\* entries (code -> name) are set
NamesMap(inline, entries) ==
    [code \in inline \cup {e[2][2] : e \in entries} |->
        IF \E e \in entries : e[2][2] = code THEN LastRosterName(entries, code)
        ELSE code]

\* extractEmployeeNames: the Map code -> name.  The inline codes are set
\* first (code -> code), the roster entries after them; of two roster
\* entries with one code the later wins.
extractEmployeeNames(s) ==
    NamesMap({SubSeq(s, q, q + 1) : q \in {q \in 1..Len(s) : InlineCodeAt(s, q)}},
             RosterEntries(s))

\* \d{1,2} at p: its last position, or 0
OneOrTwoDigitsEnd(s, p) ==
    IF p <= Len(s) /\ IsDigit(s[p])
    THEN (IF p + 1 <= Len(s) /\ IsDigit(s[p + 1]) THEN p + 1 ELSE p)
    ELSE 0

FourDigitsAt(s, p) == p + 3 <= Len(s) /\ \A i \in 0..3 : IsDigit(s[p + i])

\* ",? \d{4}" after the day that is s[e + 2..d2], the comma skipped to c
USYearAt(s, p, e, d2, c) ==
    IF d2 # 0 /\ c + 1 <= Len(s) /\ s[c + 1] = " " /\ FourDigitsAt(s, c + 2)
    THEN << SubSeq(s, p, e), ParseInt(SubSeq(s, e + 2, d2)),
            ParseInt(SubSeq(s, c + 2, c + 5)), c # d2 >>
    ELSE <<>>

USCommaAt(s, p, e, d2) ==
    USYearAt(s, p, e, d2,
             IF d2 # 0 /\ d2 + 1 <= Len(s) /\ s[d2 + 1] = "," THEN d2 + 1 ELSE d2)

USDayAt(s, p, e) ==
    USCommaAt(s, p, e,
              IF e >= p /\ e + 1 <= Len(s) /\ s[e + 1] = " "
              THEN OneOrTwoDigitsEnd(s, e + 2) ELSE 0)

\* /(\w+ \d{1,2},? \d{4})/ matched from p: <<month word, day, year, comma>>
\* of the match, or <<>>.  \w+ and \d{1,2} are greedy.
USDateAt(s, p) == USDayAt(s, p, WordRunEnd(s, p))

\* DateTime.fromFormat(match, 'MMMM d yyyy'): the format has no comma
FromFormatUS(m) ==
    LET ms == {k \in 1..12 : Lower(m[1]) = MonthNames[k]}
    IN  IF ms = {} \/ m[4] THEN <<>> ELSE <<m[3], Least(ms), m[2]>>

NumericYearAt(s, p, sep, a, b) ==
    IF b # 0 /\ b + 1 <= Len(s) /\ s[b + 1] = sep /\ FourDigitsAt(s, b + 2)
    THEN << ParseInt(SubSeq(s, p, a)), ParseInt(SubSeq(s, a + 2, b)),
            ParseInt(SubSeq(s, b + 2, b + 5)), a - p + 1, b - a - 1 >>
    ELSE <<>>

NumericSecondAt(s, p, sep, a) ==
    NumericYearAt(s, p, sep, a,
                  IF a # 0 /\ a + 1 <= Len(s) /\ s[a + 1] = sep
                  THEN OneOrTwoDigitsEnd(s, a + 2) ELSE 0)

\* /(\d{1,2}<sep>\d{1,2}<sep>\d{4})/ matched from p: the three numbers and
\* the lengths of the first two, or <<>>
NumericDateAt(s, p, sep) == NumericSecondAt(s, p, sep, OneOrTwoDigitsEnd(s, p))

\* the leftmost match among the matches at each position, or <<>>
Leftmost(hits) ==
    IF hits = {} THEN <<>>
    ELSE (CHOOSE h \in hits : \A g \in hits : h[1] <= g[1])[2]

\* the matches of the US pattern: the set of <<position, match>>
USDates(s) == {h \in {<<q, USDateAt(s, q)>> : q \in 1..Len(s)} : h[2] # <<>>}

NumericDates(s, sep) ==
    {h \in {<<q, NumericDateAt(s, q, sep)>> : q \in 1..Len(s)} : h[2] # <<>>}

FromFormatUSIf(m) == IF m = <<>> THEN <<>> ELSE FromFormatUS(m)

\* DateTime.fromFormat(match, 'M/d/yyyy')
FromFormatSlash(m) == IF m = <<>> THEN <<>> ELSE <<m[3], m[1], m[2]>>

\* DateTime.fromFormat(match, 'dd.MM.yyyy'): two digits each
FromFormatDot(m) ==
    IF m = <<>> THEN <<>>
    ELSE IF m[4] = 2 /\ m[5] = 2 THEN <<m[3], m[2], m[1]>> ELSE <<>>

\* the four date patterns of extractMeetingDate, each on its leftmost match:
\* the parsed <<year, month, day>>, or <<>> when it does not match or parse
MeetingDatePattern(s, k) ==
    CASE k = 1 -> MatchISO(s)
      [] k = 2 -> FromFormatUSIf(Leftmost(USDates(s)))
      [] k = 3 -> FromFormatSlash(Leftmost(NumericDates(s, "/")))
      [] k = 4 -> FromFormatDot(Leftmost(NumericDates(s, ".")))

\* if (parsed.isValid) return parsed
ValidOr(parsed, other) ==
    IF parsed # <<>> /\ IsValidISO(parsed) THEN FromISO(parsed) ELSE other

RECURSIVE MeetingDateFrom(_, _, _)
MeetingDateFrom(s, today, k) ==
    IF k > 4 THEN today
    ELSE ValidOr(MeetingDatePattern(s, k), MeetingDateFrom(s, today, k + 1))

\* extractMeetingDate: the first pattern that matches and parses, else the
\* processing date
extractMeetingDate(s, today) == MeetingDateFrom(s, today, 1)

-----------------------------------------------------------------------------
(* Tasks, normalisation and merging *)

Priorities == {"High", "Medium", "Low"}

\* tokenize: text.toLowerCase().split(/\s+/)
tokenize(str) == Split(Lower(str))

NormalizePrefixes ==
    << w_please, Join(<<w_can, w_you>>), Join(<<w_could, w_you>>),
       Join(<<w_would, w_you>>), w_ill, Join(<<w_i, w_will>>),
       Join(<<w_going, w_to>>), Join(<<w_plan, w_to>>) >>

ConnectivePrefixes == << w_to, w_and, w_then >>

normalizeTaskDescription(description) ==
    Trim(StripPrefix(StripPrefix(description, NormalizePrefixes), ConnectivePrefixes))

\* desc1.filter(word => desc2.includes(word))
CommonWords(desc1, desc2) == SelectSeq(desc1, LAMBDA w : w \in Range(desc2))

\* the mutation: the threshold taken of the longer description
shouldMergeTasks_Longer(task1, task2) ==
    LET desc1 == tokenize(task1.description)
        desc2 == tokenize(task2.description)
    IN  Len(CommonWords(desc1, desc2)) * 10 >= Max(Len(desc1), Len(desc2)) * 6

\* commonWords.length >= Math.min(desc1.length, desc2.length) * 0.6
shouldMergeTasks(task1, task2) ==
    LET desc1 == tokenize(task1.description)
        desc2 == tokenize(task2.description)
    IN  Len(CommonWords(desc1, desc2)) * 10 >= Min(Len(desc1), Len(desc2)) * 6

\* the mutation: the Medium test made before the High test
PriorityOfMerge_MediumFirst(p1, p2) ==
    IF p1 = "Medium" \/ p2 = "Medium" THEN "Medium"
    ELSE IF p1 = "High" \/ p2 = "High" THEN "High" ELSE "Low"

PriorityOfMerge(p1, p2) ==
    IF p1 = "High" \/ p2 = "High" THEN "High"
    ELSE IF p1 = "Medium" \/ p2 = "Medium" THEN "Medium" ELSE "Low"

\* the mutation: the later task spread instead of the first-seen record
mergeTasks_SpreadSecond(task1, task2) ==
    [task2 EXCEPT
        !.description = IF Len(task1.description) > Len(task2.description)
                        THEN task1.description ELSE task2.description,
        !.priority = PriorityOfMerge(task1.priority, task2.priority),
        !.deadline = IF FromISO(task1.deadline) < FromISO(task2.deadline)
                     THEN task1.deadline ELSE task2.deadline]

mergeTasks(task1, task2) ==
    [task1 EXCEPT
        !.description = IF Len(task1.description) > Len(task2.description)
                        THEN task1.description ELSE task2.description,
        !.priority = PriorityOfMerge(task1.priority, task2.priority),
        !.deadline = IF FromISO(task1.deadline) < FromISO(task2.deadline)
                     THEN task1.deadline ELSE task2.deadline]

\* result.findIndex(pred): the first index, or 0 for -1
FindSimilar(result, task) ==
    LET hits == {k \in DOMAIN result : shouldMergeTasks(result[k], task)}
    IN  IF hits = {} THEN 0 ELSE CHOOSE k \in hits : \A j \in hits : k <= j

\* the loop of deduplicateAndMergeTasks from task i on
RECURSIVE DedupLoop(_, _, _, _)
DedupLoop(list, i, result, seen) ==
    IF i > Len(list) THEN result
    ELSE LET task == list[i]
             normalizedDesc == normalizeTaskDescription(task.description)
             normTask == [task EXCEPT !.description = normalizedDesc]
             similarTaskIndex == FindSimilar(result, normTask)
         IN  IF normalizedDesc \in seen
             THEN DedupLoop(list, i + 1, result, seen)
             ELSE IF similarTaskIndex > 0
             THEN DedupLoop(list, i + 1,
                      [result EXCEPT ![similarTaskIndex] =
                                        mergeTasks(result[similarTaskIndex], task)],
                      seen)
             ELSE DedupLoop(list, i + 1, Append(result, normTask),
                            seen \cup {normalizedDesc})

deduplicateAndMergeTasks(list) == DedupLoop(list, 1, <<>>, {})

-----------------------------------------------------------------------------
(* TextAnalyzer: priority, task likelihood and addTask *)

\* /lit/i is found in s
Contains(s, lit) == \E p \in 1..Len(s) : LitAt(s, p, lit)

\* /a.*?b/i is found in s
ContainsThen(s, a, b) ==
    \E p \in 1..Len(s) : LitAt(s, p, a) /\ \E q \in (p + Len(a))..Len(s) : LitAt(s, q, b)

\* the assertion \b holds between positions p - 1 and p of s
BoundaryAt(s, p) ==
    LET before == p - 1 >= 1 /\ p - 1 <= Len(s) /\ IsWordChar(s[p - 1])
        after  == p >= 1 /\ p <= Len(s) /\ IsWordChar(s[p])
    IN  before # after

\* /\blit\b/i is found in s
ContainsWord(s, lit) ==
    \E p \in 1..Len(s) : LitAt(s, p, lit) /\ BoundaryAt(s, p) /\ BoundaryAt(s, p + Len(lit))

\* /^lit\b/i matches s
StartsWithWord(s, lit) == LitAt(s, 1, lit) /\ BoundaryAt(s, Len(lit) + 1)

HighPriorityWords == { <<"c","r","i","t","i","c","a","l">>, <<"u","r","g","e","n","t">>, <<"i","m","m","e","d","i","a","t","e">>,
      <<"a","s","a","p">>, <<"p","r","i","o","r","i","t","i","z","e">>, <<"t","o","p"," ","p","r","i","o","r","i","t","y">>,
      <<"e","r","r","o","r">>, <<"p","r","o","b","l","e","m">>, <<"b","u","g">> }

MediumPriorityWords == { <<"i","n","v","e","s","t","i","g","a","t","e">>, <<"r","e","p","o","r","t">>, <<"i","m","p","r","o","v","e">>,
      <<"o","p","t","i","m","i","z","e">>, <<"e","n","h","a","n","c","e">>, <<"u","p","d","a","t","e">>,
      <<"n","e","x","t"," ","s","p","r","i","n","t">>, <<"s","o","o","n">>, <<"f","o","l","l","o","w","i","n","g">>,
      <<"p","e","r","f","o","r","m","a","n","c","e">>, <<"b","o","t","t","l","e","n","e","c","k">> }

\* the mutation: the Medium tier tested before the High tier
determinePriority_MediumFirst(str, context) ==
    IF \E w \in MediumPriorityWords : Contains(str, w) THEN "Medium"
    ELSE IF \/ \E w \in HighPriorityWords : Contains(str, w)
            \/ ContainsThen(str, <<"e","n","t","e","r","p","r","i","s","e">>, <<"c","l","i","e","n","t">>)
            \/ ContainsThen(str, <<"f","i","x">>, <<"i","s","s","u","e">>)
            \/ ContainsThen(str, <<"i","s","s","u","e">>, <<"f","i","x">>)
    THEN "High"
    ELSE "Low"

\* determinePriority(text, context): the patterns are tested on text alone
determinePriority(str, context) ==
    IF \/ \E w \in HighPriorityWords : Contains(str, w)
       \/ ContainsThen(str, <<"e","n","t","e","r","p","r","i","s","e">>, <<"c","l","i","e","n","t">>)
       \/ ContainsThen(str, <<"f","i","x">>, <<"i","s","s","u","e">>)
       \/ ContainsThen(str, <<"i","s","s","u","e">>, <<"f","i","x">>)
    THEN "High"
    ELSE IF \E w \in MediumPriorityWords : Contains(str, w) THEN "Medium"
    ELSE "Low"

\* taskIndicators: every alternative, the optional plural s written out
TaskIndicators ==
    { <<"n","e","e","d"," ","t","o">>, <<"n","e","e","d","s"," ","t","o">>, <<"n","e","e","d","e","d"," ","t","o">>,
      <<"s","h","o","u","l","d">>, <<"m","u","s","t">>, <<"w","i","l","l">>,
      <<"g","o","i","n","g"," ","t","o">>, <<"i","m","p","l","e","m","e","n","t">>, <<"c","r","e","a","t","e">>,
      <<"d","e","v","e","l","o","p">>, <<"f","i","x">>, <<"u","p","d","a","t","e">>,
      <<"r","e","v","i","e","w">>, <<"t","e","s","t">>, <<"c","h","e","c","k">>,
      <<"a","n","a","l","y","z","e">>, <<"d","e","s","i","g","n">>, <<"p","r","e","p","a","r","e">>,
      <<"c","o","o","r","d","i","n","a","t","e">>, <<"s","e","t","u","p">>, <<"c","o","n","f","i","g","u","r","e">>,
      <<"t","a","s","k">>, <<"t","o","d","o">>, <<"a","c","t","i","o","n"," ","i","t","e","m">>,
      <<"a","c","t","i","o","n">>, <<"i","t","e","m">>, <<"t","a","s","k","s">>,
      <<"t","o","d","o","s">>, <<"a","c","t","i","o","n"," ","i","t","e","m","s">>, <<"a","c","t","i","o","n","s">>,
      <<"i","t","e","m","s">>, <<"a","s","s","i","g","n","e","d"," ","t","o">>, <<"r","e","s","p","o","n","s","i","b","l","e"," ","f","o","r">>,
      <<"i","n"," ","c","h","a","r","g","e"," ","o","f">>, <<"w","o","r","k"," ","o","n">>, <<"h","a","n","d","l","e">>,
      <<"m","a","n","a","g","e">>, <<"l","e","a","d">>, <<"o","v","e","r","s","e","e">>,
      <<"s","c","h","e","d","u","l","e">>, <<"p","l","a","n">>, <<"o","r","g","a","n","i","z","e">>,
      <<"a","r","r","a","n","g","e">>, <<"c","o","n","s","i","d","e","r">>, <<"l","o","o","k"," ","i","n","t","o">>,
      <<"i","n","v","e","s","t","i","g","a","t","e">>, <<"r","e","s","e","a","r","c","h">>, <<"f","o","l","l","o","w"," ","u","p">>,
      <<"f","o","l","l","o","w","-","u","p">>, <<"t","r","a","c","k">>, <<"m","o","n","i","t","o","r">>,
      <<"p","r","i","o","r","i","t","y">>, <<"d","e","a","d","l","i","n","e">>, <<"t","i","m","e","l","i","n","e">>,
      <<"m","i","l","e","s","t","o","n","e">>, <<"l","e","t","'","s">>, <<"w","e"," ","s","h","o","u","l","d">>,
      <<"w","e"," ","n","e","e","d"," ","t","o">>, <<"w","e"," ","m","u","s","t">>, <<"a","c","t","i","o","n"," ","p","o","i","n","t">>,
      <<"a","c","t","i","o","n"," ","p","o","i","n","t","s">>, <<"n","e","x","t"," ","s","t","e","p">>, <<"n","e","x","t"," ","s","t","e","p","s">>,
      <<"d","e","l","i","v","e","r","a","b","l","e">>, <<"d","e","l","i","v","e","r","a","b","l","e","s">> }

IgnorePhrases ==
    { <<"h","i">>, <<"h","e","l","l","o">>, <<"h","e","y">>,
      <<"t","h","a","n","k","s">>, <<"t","h","a","n","k"," ","y","o","u">>, <<"o","k","a","y">>,
      <<"o","k">>, <<"y","e","s">>, <<"n","o">>,
      <<"m","a","y","b","e">>, <<"i"," ","s","e","e">>, <<"i"," ","u","n","d","e","r","s","t","a","n","d">>,
      <<"g","o","t"," ","i","t">>, <<"m","a","k","e","s"," ","s","e","n","s","e">>, <<"g","o","o","d"," ","m","o","r","n","i","n","g">>,
      <<"g","o","o","d"," ","a","f","t","e","r","n","o","o","n">>, <<"g","o","o","d"," ","e","v","e","n","i","n","g">>, <<"w","e","l","c","o","m","e">>,
      <<"g","r","e","a","t">>, <<"a","w","e","s","o","m","e">>, <<"p","e","r","f","e","c","t">>,
      <<"b","y","e">>, <<"g","o","o","d","b","y","e">>, <<"s","e","e"," ","y","o","u">>,
      <<"t","a","l","k"," ","t","o"," ","y","o","u">> }

\* the mutation: the ignore list not consulted
isTaskLike_NoIgnore(str) ==
    IF Len(Trim(str)) < 10 THEN FALSE
    ELSE \E w \in TaskIndicators : ContainsWord(str, w)

isTaskLike(str) ==
    IF \E w \in IgnorePhrases : StartsWithWord(Trim(str), w) THEN FALSE
    ELSE IF Len(Trim(str)) < 10 THEN FALSE
    ELSE \E w \in TaskIndicators : ContainsWord(str, w)

RequestPrefixes == << <<"p","l","e","a","s","e">>, <<"c","a","n"," ","y","o","u">>, <<"c","o","u","l","d"," ","y","o","u">>,
       <<"w","o","u","l","d"," ","y","o","u">> >>

GenericVerbs == << <<"d","o">>, <<"m","a","k","e">>, <<"g","e","t">>,
       <<"h","a","v","e">>, <<"b","e">> >>

RECURSIVE StripTrailingPunctuation(_)
\* s.replace(/[.?!]+$/, '')
StripTrailingPunctuation(s) ==
    IF s # <<>> /\ s[Len(s)] \in {".", "?", "!"}
    THEN StripTrailingPunctuation(SubSeq(s, 1, Len(s) - 1)) ELSE s

\* addTask: cleanDescription
CleanDescription(description) ==
    Trim(StripTrailingPunctuation(
           StripPrefix(StripPrefix(description, RequestPrefixes), ConnectivePrefixes)))

\* addTask: too short or too generic
IsDiscarded(cleanDescription) ==
    \/ Len(cleanDescription) < 10
    \/ \E k \in DOMAIN GenericVerbs : StartsWithPhrase(cleanDescription, GenericVerbs[k])

Unassigned == <<"U","n","a","s","s","i","g","n","e","d">>

\* addTask: the assignee mapped to a full name
MapAssignee(names, assignee) ==
    IF assignee \in DOMAIN names THEN names[assignee]
    ELSE IF \E k \in DOMAIN names : Lower(k) = Lower(assignee)
    THEN names[CHOOSE k \in DOMAIN names : Lower(k) = Lower(assignee)]
    ELSE Unassigned

\* addTask: the deadline
DeadlineOf(description, context, ctx, today) ==
    OrElse(extractDate(description, ctx, today),
           OrElse(extractDate(Join(context), ctx, today), <<today + 7>>))[1]

\* tasks.get(key).push(task), the key created when it is new
PushTask(map, key, task) ==
    IF key \in DOMAIN map THEN [map EXCEPT ![key] = Append(@, task)]
    ELSE map @@ (key :> <<task>>)

\* addTask(tasks, assignee, description, context) with Math.random giving id:
\* the Map tasks after the call
addTask(map, assignee, description, context, id, names, ctx, today) ==
    LET cleanDescription == CleanDescription(description)
        mappedAssignee == MapAssignee(names, assignee)
        task == [ id |-> id,
                  description |-> cleanDescription,
                  assignedTo |-> mappedAssignee,
                  assignedDate |-> ToFormat(ctx),
                  deadline |-> ToFormat(DeadlineOf(description, context, ctx, today)),
                  priority |-> determinePriority(description, context),
                  status |-> "pending" ]
    IN  IF IsDiscarded(cleanDescription) THEN map
        ELSE PushTask(map, mappedAssignee, task)

-----------------------------------------------------------------------------
(* TextAnalyzer: parseDialogue and extractTasks *)

\* the positions of the line breaks of s
Breaks(s) == {p \in 1..Len(s) : s[p] = "\n"}

\* the position of the i-th line break of s; 0 for i = 0 and Len(s) + 1
\* past the last one
BreakAt(s, i) ==
    IF i = 0 THEN 0
    ELSE IF i > Cardinality(Breaks(s)) THEN Len(s) + 1
    ELSE CHOOSE p \in Breaks(s) : Cardinality({q \in Breaks(s) : q < p}) = i - 1

\* text.split('\n')
Lines(s) ==
    [ i \in 1..(Cardinality(Breaks(s)) + 1) |->
          SubSeq(s, BreakAt(s, i - 1) + 1, BreakAt(s, i) - 1) ]

\* line.match(/^([A-Z]{2}):\s*(.*)/)
IsSpeakerLine(line) ==
    Len(line) >= 3 /\ IsUpper(line[1]) /\ IsUpper(line[2]) /\ line[3] = ":"

RECURSIVE ParseLines(_, _, _)
ParseLines(lines, i, acc) ==
    IF i > Len(lines) THEN acc
    ELSE IF IsSpeakerLine(lines[i])
    THEN ParseLines(lines, i + 1,
             Append(acc, [ speaker |-> SubSeq(lines[i], 1, 2),
                           content |-> Trim(SubSeq(lines[i], 4, Len(lines[i]))) ]))
    ELSE ParseLines(lines, i + 1, acc)

parseDialogue(s) == ParseLines(Lines(s), 1, <<>>)

\* /decisions? for today are[:]?/i
decisionListPattern(content) ==
    \/ Contains(content, <<"d","e","c","i","s","i","o","n"," ","f","o","r"," ","t","o","d","a","y"," ","a","r","e">>)
    \/ Contains(content, <<"d","e","c","i","s","i","o","n","s"," ","f","o","r"," ","t","o","d","a","y"," ","a","r","e">>)

\* content.match(/^\d+\.\s*(.+)$/): << group 1 >>, or <<>>
numberedTaskPattern(content) ==
    LET e == DigitRunEnd(content, 1)
        q == IF e >= 1 /\ e + 1 <= Len(content) /\ content[e + 1] = "."
             THEN BlankRunEnd(content, e + 2) + 1 ELSE 0
    IN  IF q = 0 THEN <<>>
        ELSE IF q <= Len(content) THEN << SubSeq(content, q, Len(content)) >>
        ELSE IF q - 1 >= e + 2 THEN << SubSeq(content, q - 1, Len(content)) >>
        ELSE <<>>

\* "for (\w+)" followed by tail, at p: the group, or <<>>
ForGroupAt(s, p, tail) ==
    LET e == WordRunEnd(s, p + 4)
    IN  IF LitAt(s, p, <<"f","o","r"," ">>) /\ e >= p + 4 /\ LitAt(s, e + 1, tail)
        THEN SubSeq(s, p + 4, e) ELSE <<>>

\* the leftmost "for (\w+) to" or "for (\w+):", the first at one position
ForGroup(s, at) ==
    IF at = {} THEN <<>>
    ELSE OrElse(ForGroupAt(s, Least(at), <<" ","t","o">>), ForGroupAt(s, Least(at), <<":">>))

\* ^(\w+) will|^(\w+), with the first word ending at e
LeadingAssignee(s, e) ==
    IF e >= 1 /\ (LitAt(s, e + 1, <<" ","w","i","l","l">>) \/ LitAt(s, e + 1, <<",">>))
    THEN SubSeq(s, 1, e) ELSE <<>>

\* the assignee of a numbered decision:
\* /^(\w+) will|^(\w+),|for (\w+) to|for (\w+):/i, upper-cased; <<>> for none
DecisionAssignee(s) ==
    Upper(OrElse(LeadingAssignee(s, WordRunEnd(s, 1)),
                 ForGroup(s, {p \in 1..Len(s) : ForGroupAt(s, p, <<" ","t","o">>) # <<>>
                                                \/ ForGroupAt(s, p, <<":">>) # <<>>})))

\* (.+?)(?:stop|$) from position q of s: the group, or <<>> when q is past the end
LazyUntil(s, q, stop) ==
    IF q > Len(s) THEN <<>>
    ELSE SubSeq(s, q, Least({k \in q..Len(s) : k = Len(s) \/ s[k + 1] = stop}))

\* /^(\w+)mid(.+?)(?:stop|$)/i: << assignee, description >>, or <<>>
NamedRequest(s, mid, stop) ==
    LET e == WordRunEnd(s, 1)
        q == e + Len(mid) + 1
    IN  IF e >= 1 /\ LitAt(s, e + 1, mid) /\ q <= Len(s)
        THEN << Upper(SubSeq(s, 1, e)), LazyUntil(s, q, stop) >>
        ELSE <<>>

\* /Action item for (\w+): (.+?)(?:\.|$)/i at p
ActionItemAt(s, p) ==
    LET e == WordRunEnd(s, p + 16)
    IN  IF LitAt(s, p, <<"a","c","t","i","o","n"," ","i","t","e","m"," ","f","o","r"," ">>) /\ e >= p + 16
           /\ LitAt(s, e + 1, <<":"," ">>) /\ e + 3 <= Len(s)
        THEN << Upper(SubSeq(s, p + 16, e)), LazyUntil(s, e + 3, ".") >>
        ELSE <<>>

ActionItem(s) ==
    LET at == {p \in 1..Len(s) : ActionItemAt(s, p) # <<>>}
    IN  IF at = {} THEN <<>> ELSE ActionItemAt(s, Least(at))

\* /(?:lead1|lead2|...) (.+?)(?:\.|$)/i: the description, or <<>>
LedRequest(s, leads) ==
    LET at == {p \in 1..Len(s) :
                  \E k \in DOMAIN leads : /\ LitAt(s, p, leads[k] \o <<" ">>)
                                          /\ p + Len(leads[k]) + 1 <= Len(s)}
        p0 == Least(at)
        k0 == CHOOSE k \in DOMAIN leads : LitAt(s, p0, leads[k] \o <<" ">>)
    IN  IF at = {} THEN <<>> ELSE LazyUntil(s, p0 + Len(leads[k0]) + 1, ".")

IntentLeads == << <<"g","o","i","n","g"," ","t","o">>, <<"p","l","a","n"," ","t","o">> >>

\* the pattern's assignee is the speaker
BySpeaker(speaker, description) ==
    IF description = <<>> THEN <<>> ELSE << speaker, description >>

\* taskPatterns[k] on an utterance: << taskAssignee, taskDescription >>, or <<>>
TaskPattern(k, content, speaker) ==
    IF k = 1 THEN NamedRequest(content, <<","," ","c","a","n"," ","y","o","u"," ">>, "?")
    ELSE IF k = 2 THEN ActionItem(content)
    ELSE IF k = 3 THEN NamedRequest(content, <<" ","w","i","l","l"," ">>, ".")
    ELSE IF k = 4 THEN NamedRequest(content, <<" ","t","o"," ">>, ".")
    ELSE IF k = 5 THEN BySpeaker(speaker, LedRequest(content, RequestPrefixes))
    ELSE BySpeaker(speaker, LedRequest(content, IntentLeads))

\* if (taskAssignee && taskDescription && taskDescription.length > 3) ... break
UsableOr(match, other) == IF match # <<>> /\ Len(match[2]) > 3 THEN match ELSE other

RECURSIVE FirstTaskPattern(_, _, _)
\* the loop over taskPatterns from pattern k on: the first match whose
\* description is longer than 3 characters, or <<>>
FirstTaskPattern(k, content, speaker) ==
    IF k > 6 THEN <<>>
    ELSE UsableOr(TaskPattern(k, content, speaker), FirstTaskPattern(k + 1, content, speaker))

\* contextWindow of the dialogue at index i (1-based)
ContextWindow(ds, i) ==
    [ j \in 1..(Min(Len(ds), i + 2) - Max(1, i - 2) + 1) |->
          ds[Max(1, i - 2) + j - 1].content ]

-----------------------------------------------------------------------------
(* AIAnalyzer: identifyTasks and extractKeyPoints up to their provider calls *)

AI_TaskKeywords ==
    { <<"w","i","l","l">>, <<"n","e","e","d"," ","t","o">>, <<"s","h","o","u","l","d">>, <<"m","u","s","t">>,
      <<"g","o","i","n","g"," ","t","o">>, <<"p","l","a","n"," ","t","o">>, <<"r","e","v","i","e","w">>, <<"s","c","h","e","d","u","l","e">>,
      <<"s","e","t">>, <<"a","d","d","r","e","s","s">>, <<"f","i","x">>, <<"i","m","p","r","o","v","e">>,
      <<"t","a","s","k">>, <<"a","c","t","i","o","n"," ","i","t","e","m">>, <<"f","o","l","l","o","w"," ","u","p">>, <<"c","a","n"," ","y","o","u">>,
      <<"c","o","u","l","d"," ","y","o","u">>, <<"p","l","e","a","s","e">> }

AI_Greetings ==
    { <<"g","o","o","d"," ","m","o","r","n","i","n","g">>, <<"t","h","a","n","k","s"," ","f","o","r">>, <<"h","e","l","l","o">>, <<"h","i"," ","e","v","e","r","y","o","n","e">> }

\* the filter of identifyTasks on one dialogue line
AI_IsTaskIndicator(content) ==
    /\ \E w \in AI_TaskKeywords : Contains(content, w)
    /\ ~\E w \in AI_Greetings : Contains(content, w)
    /\ Len(content) > 10

IsLetter(c) == IsLowerLetter(c) \/ IsUpper(c)

AI_AssigneeSuffixes ==
    { <<",">>, <<" ","w","i","l","l">>, <<" ","s","h","o","u","l","d">>, <<" ","t","o">>,
      <<" ","c","a","n">>, <<" ","n","e","e","d"," ","t","o">>, <<" ","n","e","e","d","s"," ","t","o">>, <<" ","i","s"," ","g","o","i","n","g"," ","t","o">>,
      <<" ","p","l","a","n"," ","t","o">>, <<" ","p","l","a","n","s"," ","t","o">> }

\* [A-Z]{2} under the flag i at p: the two characters, or <<>>
TwoLettersAt(s, p) ==
    IF p >= 1 /\ p + 1 <= Len(s) /\ IsLetter(s[p]) /\ IsLetter(s[p + 1])
    THEN SubSeq(s, p, p + 1) ELSE <<>>

\* /([A-Z]{2})(?:,| will| ...)/i at p: group 1, or <<>>
AssigneeThenAt(s, p) ==
    IF \E t \in AI_AssigneeSuffixes : LitAt(s, p + 2, t) THEN TwoLettersAt(s, p) ELSE <<>>

\* /lead([A-Z]{2})tail/i at p: group 1, or <<>>
LedTwoLettersAt(s, p, lead, tail) ==
    IF LitAt(s, p, lead) /\ LitAt(s, p + Len(lead) + 2, tail)
    THEN TwoLettersAt(s, p + Len(lead)) ELSE <<>>

\* /assign(?:ed)? to ([A-Z]{2})/i at p: group 1, or <<>>
AssignedToAt(s, p) ==
    OrElse(LedTwoLettersAt(s, p, <<"a","s","s","i","g","n"," ","t","o"," ">>, <<>>),
           LedTwoLettersAt(s, p, <<"a","s","s","i","g","n","e","d"," ","t","o"," ">>, <<>>))

\* /([A-Z]{2}):/ at p: group 1, or <<>>
CodeColonAt(s, p) ==
    IF p + 2 <= Len(s) /\ IsUpper(s[p]) /\ IsUpper(s[p + 1]) /\ s[p + 2] = ":"
    THEN SubSeq(s, p, p + 1) ELSE <<>>

\* s.includes(lit), case-sensitive
Includes(s, lit) ==
    \E p \in 1..Len(s) : p + Len(lit) - 1 <= Len(s) /\ SubSeq(s, p, p + Len(lit) - 1) = lit

AI_TeamPhrases == { <<"l","e","t","'","s">>, <<"w","e"," ","s","h","o","u","l","d">>, <<"w","e"," ","n","e","e","d"," ","t","o">>, <<"w","e"," ","m","u","s","t">> }

\* assignmentPatterns[k] on content: the assignee it gives, or <<>>
AI_AssignmentPattern(k, content) ==
    CASE k = 1 -> Leftmost({h \in {<<q, AssigneeThenAt(content, q)>> : q \in 1..Len(content)} :
                               h[2] # <<>>})
      [] k = 2 -> Leftmost({h \in {<<q, AssignedToAt(content, q)>> : q \in 1..Len(content)} :
                               h[2] # <<>>})
      [] k = 3 -> Leftmost({h \in {<<q, LedTwoLettersAt(content, q, <<"f","o","r"," ">>, <<" ","t","o">>)>> :
                                      q \in 1..Len(content)} : h[2] # <<>>})
      [] k = 4 -> Leftmost({h \in {<<q, CodeColonAt(content, q)>> : q \in 1..Len(content)} :
                               h[2] # <<>>})
      [] k = 5 -> IF \E w \in AI_TeamPhrases : Includes(content, w)
                  THEN <<"T","E","A","M">> ELSE <<>>

RECURSIVE AI_AssigneeFrom(_, _, _)
\* the loop over assignmentPatterns from the k-th on; the speaker when none
\* matches
AI_AssigneeFrom(k, content, speaker) ==
    IF k > 5 THEN speaker
    ELSE OrElse(AI_AssignmentPattern(k, content), AI_AssigneeFrom(k + 1, content, speaker))

AI_TeamPrefixes == << <<"w","e"," ","s","h","o","u","l","d">>, <<"w","e"," ","n","e","e","d"," ","t","o">>, <<"w","e"," ","m","u","s","t">>, <<"l","e","t","'","s">> >>

\* cleanedContent of identifyTasks
AI_CleanedContent(content) ==
    Trim(StripTrailingPunctuation(
           StripPrefix(StripPrefix(StripPrefix(content, RequestPrefixes), AI_TeamPrefixes),
                       ConnectivePrefixes)))

\* taskIndicators of identifyTasks
AI_TaskIndicators(ds) == SelectSeq(ds, LAMBDA d : AI_IsTaskIndicator(d.content))

\* dialogues.slice(Math.max(0, index - 3), Math.min(dialogues.length, index + 4))
\* .map(d => d.content), the index idx being 0-based
AI_Context(ds, idx) ==
    [ j \in 1..Max(0, Min(Len(ds), idx + 4) - Max(0, idx - 3)) |->
          ds[Max(0, idx - 3) + j].content ]

\* the task of one line of taskIndicators
AI_TaskOfLine(line, context) ==
    [ speaker  |-> line.speaker,
      assignee |-> AI_AssigneeFrom(1, line.content, line.speaker),
      content  |-> AI_CleanedContent(line.content),
      context  |-> context ]

AI_TasksOfLines(ds, lines) ==
    [ i \in DOMAIN lines |-> AI_TaskOfLine(lines[i], AI_Context(ds, i - 1)) ]

\* the tasks identifyTasks hands to validation: the index that cuts the
\* context out of dialogues is the line's index in the filtered list
AI_TaskCandidates(ds) == AI_TasksOfLines(ds, AI_TaskIndicators(ds))

-----------------------------------------------------------------------------
(* AIAnalyzer: extractDeadline and determinePriority.  The host's zone is  *)
(* UTC, so that new Date() and toISOString() agree on the day.             *)

\* \s+ at p: the position after it, or 0
AfterBlanks(s, p) == IF BlankRunEnd(s, p) >= p THEN BlankRunEnd(s, p) + 1 ELSE 0

\* (?:the\s+)? at g0: the position after it
AI_SkipThe(s, g0) ==
    IF LitAt(s, g0, <<"t","h","e">>) /\ AfterBlanks(s, g0 + 3) # 0
    THEN AfterBlanks(s, g0 + 3) ELSE g0

\* (?:of\s+)? at a: the position after it
AI_SkipOf(s, a) ==
    IF LitAt(s, a, <<"o","f">>) /\ AfterBlanks(s, a + 2) # 0
    THEN AfterBlanks(s, a + 2) ELSE a

\* \s+(?:of\s+)?(?:january|...|december) at a
AI_MonthAfter(s, a) ==
    /\ a # 0
    /\ AfterBlanks(s, a) # 0
    /\ \E m \in 1..12 : LitAt(s, AI_SkipOf(s, AfterBlanks(s, a)), MonthNames[m])

\* \d{1,2}(?:st|nd|rd|th)?\s+(?:of\s+)?(?:january|...|december) at g
AI_NamedDateAt(s, g) ==
    /\ DigitRunEnd(s, g) - g + 1 \in {1, 2}
    /\ AI_MonthAfter(s, SkipOrdinal(s, DigitRunEnd(s, g) + 1))

\* group 1 of the explicit-date pattern at g: <<"named">> for a date with a
\* month name, the <<year, month, day>> written for a yyyy-mm-dd, or <<>>
AI_ExplicitGroupAt(s, g) ==
    IF g = 0 THEN <<>>
    ELSE IF AI_NamedDateAt(s, g) THEN <<"named">>
    ELSE IF IsoShapeAt(s, g)
    THEN << ParseInt(SubSeq(s, g, g + 3)), ParseInt(SubSeq(s, g + 5, g + 6)),
            ParseInt(SubSeq(s, g + 8, g + 9)) >>
    ELSE <<>>

\* the position after the lead of leads that is at p and its \s+, or 0
AfterLeadAt(s, p, leads) ==
    IF \E l \in leads : LitAt(s, p, l) /\ AfterBlanks(s, p + Len(l)) # 0
    THEN AfterBlanks(s, p + Len(CHOOSE l \in leads : LitAt(s, p, l) /\ AfterBlanks(s, p + Len(l)) # 0))
    ELSE 0

AI_ExplicitLeads == { <<"b","y">>, <<"d","u","e">>, <<"o","n">>, <<"b","e","f","o","r","e">> }

SkipTheIf(s, g0) == IF g0 = 0 THEN 0 ELSE AI_SkipThe(s, g0)

\* /(?:by|due|on|before)\s+(?:the\s+)?(...)/i at p: group 1, or <<>>
AI_ExplicitAt(s, p) ==
    AI_ExplicitGroupAt(s, SkipTheIf(s, AfterLeadAt(s, p, AI_ExplicitLeads)))

AI_RelativeLeads == { <<"i","n">>, <<"w","i","t","h","i","n">>, <<"a","f","t","e","r">> }

\* (\d+)\s+(day|week|month) at g: << amount, unit >>, or <<>>
AI_AmountAt(s, g) ==
    IF g # 0 /\ DigitRunEnd(s, g) >= g /\ AfterBlanks(s, DigitRunEnd(s, g) + 1) # 0
       /\ \E u \in 1..3 : LitAt(s, AfterBlanks(s, DigitRunEnd(s, g) + 1), Units[u])
    THEN << ParseInt(SubSeq(s, g, DigitRunEnd(s, g))),
            CHOOSE u \in 1..3 : LitAt(s, AfterBlanks(s, DigitRunEnd(s, g) + 1), Units[u]) >>
    ELSE <<>>

\* /(?:in|within|after)\s+(\d+)\s+(day|week|month)s?/i at p
AI_RelativeAt(s, p) == AI_AmountAt(s, AfterLeadAt(s, p, AI_RelativeLeads))

\* date.setMonth(date.getMonth() + k): a day past the month's end runs over
\* into the next month
SetMonthPlus(d, k) ==
    DaysBeforeYear(d[1] + ((d[2] - 1 + k) \div 12))
      + DaysBeforeMonth(d[1] + ((d[2] - 1 + k) \div 12), ((d[2] - 1 + k) % 12) + 1)
      + (d[3] - 1)

AI_RelativeDate(m, today) ==
    IF m[2] = 1 THEN today + m[1]
    ELSE IF m[2] = 2 THEN today + 7 * m[1]
    ELSE SetMonthPlus(ToFormat(today), m[1])

\* the day names in the order of Date.prototype.getDay
AI_DayNames ==
    << <<"s","u","n","d","a","y">>, <<"m","o","n","d","a","y">>, <<"t","u","e","s","d","a","y">>, <<"w","e","d","n","e","s","d","a","y">>,
       <<"t","h","u","r","s","d","a","y">>, <<"f","r","i","d","a","y">>, <<"s","a","t","u","r","d","a","y">> >>

\* date.getDay(): 0 = Sunday .. 6 = Saturday
GetDay(n) == Weekday(n) % 7

\* /(tomorrow|next\s+(?:monday|...|sunday))/i at p: the keyword, or <<>>
AI_KeywordAt(s, p) ==
    IF LitAt(s, p, <<"t","o","m","o","r","r","o","w">>) THEN <<"t","o","m","o","r","r","o","w">>
    ELSE IF LitAt(s, p, <<"n","e","x","t">>) /\ AfterBlanks(s, p + 4) # 0
            /\ \E k \in 1..7 : LitAt(s, AfterBlanks(s, p + 4), AI_DayNames[k])
    THEN SubSeq(s, p, AfterBlanks(s, p + 4) - 1
                        + Len(AI_DayNames[CHOOSE k \in 1..7 :
                                  LitAt(s, AfterBlanks(s, p + 4), AI_DayNames[k])]))
    ELSE <<>>

\* [...].indexOf(name), -1 when it is not a day name
DayIndexOf(name) ==
    IF \E k \in 1..7 : AI_DayNames[k] = name
    THEN (CHOOSE k \in 1..7 : AI_DayNames[k] = name) - 1 ELSE -1

\* daysToAdd of the special-keyword handler
DaysToAdd(diff) == IF diff <= 0 THEN diff + 7 ELSE diff

AI_KeywordDate(keyword, today) ==
    IF keyword = <<"t","o","m","o","r","r","o","w">> THEN today + 1
    ELSE today + DaysToAdd(DayIndexOf(ReplaceFirst(keyword, <<"n","e","x","t"," ">>)) - GetDay(today))

\* the leftmost match of a pattern given at each position, or <<>>
LeftmostOf(s, At(_, _)) ==
    Leftmost({h \in {<<q, At(s, q)>> : q \in 1..Len(s)} : h[2] # <<>>})

\* the end-of-week and end-of-month phrases, after the three patterns
AI_PhraseDeadline(s, today) ==
    IF Contains(s, <<"e","n","d"," ","o","f"," ","w","e","e","k">>) \/ Contains(s, <<"t","h","i","s"," ","w","e","e","k">>)
    THEN ToFormat(today + (5 - GetDay(today)))
    ELSE IF Contains(s, <<"e","n","d"," ","o","f"," ","m","o","n","t","h">>) \/ Contains(s, <<"t","h","i","s"," ","m","o","n","t","h">>)
    THEN ToFormat(EndOfMonth(today))
    ELSE <<>>

AI_KeywordDeadline(s, keyword, today) ==
    IF keyword # <<>> THEN ToFormat(AI_KeywordDate(keyword, today))
    ELSE AI_PhraseDeadline(s, today)

AI_RelativeDeadline(s, m, today) ==
    IF m # <<>> THEN ToFormat(AI_RelativeDate(m, today))
    ELSE AI_KeywordDeadline(s, LeftmostOf(s, AI_KeywordAt), today)

\* the explicit-date handler: a yyyy-mm-dd is returned as it is written; a
\* date with a month name goes through new Date(dateStr), whose parse of such
\* a string is the implementation's: legacy is what it gives, <<>> standing
\* for an Invalid Date, on which toISOString throws and the loop continues
AI_ExplicitDeadline(s, m, today, legacy) ==
    IF m = <<"named">> /\ legacy # <<>> THEN legacy
    ELSE IF m # <<>> /\ m # <<"named">> THEN m
    ELSE AI_RelativeDeadline(s, LeftmostOf(s, AI_RelativeAt), today)

\* extractDeadline(text): 'yyyy-mm-dd' as <<year, month, day>>, or <<>> for
\* undefined
AI_extractDeadline(str, today, legacy) ==
    AI_ExplicitDeadline(Lower(str), LeftmostOf(Lower(str), AI_ExplicitAt), today, legacy)

AI_UrgentKeywords == { <<"u","r","g","e","n","t">>, <<"a","s","a","p">>, <<"i","m","m","e","d","i","a","t","e","l","y">>, <<"c","r","i","t","i","c","a","l">>,
      <<"e","m","e","r","g","e","n","c","y">> }

AI_HighKeywords == { <<"i","m","p","o","r","t","a","n","t">>, <<"p","r","i","o","r","i","t","y">>, <<"c","r","u","c","i","a","l">>, <<"e","s","s","e","n","t","i","a","l">>,
      <<"n","e","e","d","e","d">> }

AI_MediumKeywords == { <<"s","h","o","u","l","d">>, <<"w","o","u","l","d"," ","b","e"," ","g","o","o","d">>, <<"n","i","c","e"," ","t","o"," ","h","a","v","e">>, <<"w","h","e","n"," ","p","o","s","s","i","b","l","e">> }

AI_KeywordScore(str) ==
    3 * Cardinality({w \in AI_UrgentKeywords : Contains(str, w)})
      + 2 * Cardinality({w \in AI_HighKeywords : Contains(str, w)})
      + Cardinality({w \in AI_MediumKeywords : Contains(str, w)})

\* the score of the deadline's proximity; new Date(deadline) of a date that
\* does not exist is an Invalid Date, which no comparison accepts
AI_DeadlineScore(deadline, today) ==
    IF deadline = <<>> \/ ~IsValidISO(deadline) THEN 0
    ELSE IF FromISO(deadline) - today <= 2 THEN 3
    ELSE IF FromISO(deadline) - today <= 7 THEN 2
    ELSE IF FromISO(deadline) - today <= 14 THEN 1
    ELSE 0

\* the mutation: a total of 3 is not enough for the high level
AI_PriorityOfScore_Above3(totalScore) ==
    IF totalScore > 3 THEN "HIGH" ELSE IF totalScore >= 1 THEN "MEDIUM" ELSE "LOW"

AI_PriorityOfScore(totalScore) ==
    IF totalScore >= 3 THEN "HIGH" ELSE IF totalScore >= 1 THEN "MEDIUM" ELSE "LOW"

\* AIAnalyzer.determinePriority(text)
AI_determinePriority(str, today, legacy) ==
    AI_PriorityOfScore(AI_KeywordScore(str)
                         + AI_DeadlineScore(AI_extractDeadline(str, today, legacy), today))

-----------------------------------------------------------------------------
(* AIAnalyzer: extractKeyPoints up to its provider calls *)

AI_DecisionKeywords ==
    { <<"d","e","c","i","d","e","d">>, <<"d","e","c","i","s","i","o","n">>, <<"w","i","l","l">>, <<"a","g","r","e","e","d">>,
      <<"l","e","t","'","s">>, <<"a","c","t","i","o","n"," ","i","t","e","m">> }

AI_NewDecisionKeywords == { <<"a","c","t","i","o","n"," ","i","t","e","m">>, <<"d","e","c","i","d","e","d">>, <<"w","i","l","l">> }

\* the filter of extractKeyPoints on one dialogue line
AI_IsDecisionIndicator(content) ==
    /\ \E w \in AI_DecisionKeywords : Contains(content, w)
    /\ ~\E w \in AI_Greetings : Contains(content, w)

AI_DecisionIndicators(ds) == SelectSeq(ds, LAMBDA d : AI_IsDecisionIndicator(d.content))

\* the line at i opens a decision of its own
AI_OpensDecision(lines, i) ==
    \/ \E w \in AI_NewDecisionKeywords : Contains(lines[i].content, w)
    \/ i = 1
    \/ ~Contains(lines[i - 1].content, Lower(lines[i].content))

\* if (currentDecision) decisions.push(currentDecision.trim())
PushDecision(found, currentDecision) ==
    IF currentDecision = <<>> THEN found ELSE Append(found, Trim(currentDecision))

RECURSIVE AI_GroupDecisions(_, _, _, _)
\* the forEach that groups the decision lines, from line i on, and the push
\* after it
AI_GroupDecisions(lines, i, found, currentDecision) ==
    IF i > Len(lines) THEN PushDecision(found, currentDecision)
    ELSE IF AI_OpensDecision(lines, i)
    THEN AI_GroupDecisions(lines, i + 1, PushDecision(found, currentDecision),
                           lines[i].speaker \o <<":", " ">> \o lines[i].content)
    ELSE AI_GroupDecisions(lines, i + 1, found,
                           currentDecision \o <<" ">> \o lines[i].content)

\* the decisions extractKeyPoints hands to validation
AI_Decisions(ds) == AI_GroupDecisions(AI_DecisionIndicators(ds), 1, <<>>, <<>>)

-----------------------------------------------------------------------------
(* TextAnalyzer: extractMetadata.  A formatted time ('hh:mm a') is the     *)
(* pair <<hour, minute>> on the 24-hour clock; <<"Invalid DateTime">> is   *)
(* what toFormat gives for an invalid DateTime.                            *)

InvalidDateTime == <<"Invalid DateTime">>

\* the time of day at a minute counted from midnight
TimeOfMinute(n) == << (n % 1440) \div 60, n % 60 >>

RECURSIVE LetterRunEnd(_, _)
\* the last position of the run of [A-Za-z] that starts at p (p - 1: none)
LetterRunEnd(s, p) ==
    IF p <= Len(s) /\ IsLetter(s[p]) THEN LetterRunEnd(s, p + 1) ELSE p - 1

RECURSIVE SpaceRunEnd(_, _)
\* the last position of the run of \s that starts at p (p - 1: none)
SpaceRunEnd(s, p) == IF p <= Len(s) /\ IsSpace(s[p]) THEN SpaceRunEnd(s, p + 1) ELSE p - 1

\* DateTime.fromFormat(group, format).toFormat('yyyy-MM-dd')
FormatParsed(parsed) ==
    IF parsed # <<>> /\ IsValidISO(parsed) THEN ToFormat(FromISO(parsed)) ELSE InvalidDateTime

\* ([A-Za-z]+ \d{1,2},? \d{4}|\d{4}-\d{2}-\d{2}) at g, parsed with the format
\* the group selects: <<"none">> when the group does not match
MetadataGroupAt(s, g) ==
    IF LetterRunEnd(s, g) >= g /\ USDayAt(s, g, LetterRunEnd(s, g)) # <<>>
    THEN FormatParsed(FromFormatUS(USDayAt(s, g, LetterRunEnd(s, g))))
    ELSE IF IsoShapeAt(s, g)
    THEN FormatParsed(<< ParseInt(SubSeq(s, g, g + 3)), ParseInt(SubSeq(s, g + 5, g + 6)),
                         ParseInt(SubSeq(s, g + 8, g + 9)) >>)
    ELSE <<"none">>

\* /(?:Meeting Date|Date):\s*(...)/i with its "date:" at p
MetadataDateAt(s, p) ==
    IF LitAt(s, p, <<"d","a","t","e",":">>) THEN MetadataGroupAt(s, SpaceRunEnd(s, p + 5) + 1)
    ELSE <<"none">>

\* the date of the leftmost match, or the processing date
MetadataDateOf(hits, today) ==
    IF hits = {} THEN ToFormat(today)
    ELSE (CHOOSE h \in hits : \A g \in hits : h[1] <= g[1])[2]

MetadataDate(s, today) ==
    MetadataDateOf({h \in {<<q, MetadataDateAt(s, q)>> : q \in 1..Len(s)} : h[2] # <<"none">>},
                   today)

\* /Duration:\s*(\d+)\s*minutes/i at p: the number, or -1
DurationAt(s, p) ==
    IF LitAt(s, p, <<"d","u","r","a","t","i","o","n",":">>)
       /\ DigitRunEnd(s, SpaceRunEnd(s, p + 9) + 1) >= SpaceRunEnd(s, p + 9) + 1
       /\ LitAt(s, SpaceRunEnd(s, DigitRunEnd(s, SpaceRunEnd(s, p + 9) + 1) + 1) + 1,
                <<"m","i","n","u","t","e","s">>)
    THEN ParseInt(SubSeq(s, SpaceRunEnd(s, p + 9) + 1,
                         DigitRunEnd(s, SpaceRunEnd(s, p + 9) + 1)))
    ELSE -1

DefaultDuration == 60

DurationOf(hits) ==
    IF hits = {} THEN DefaultDuration
    ELSE (CHOOSE h \in hits : \A g \in hits : h[1] <= g[1])[2]

MetadataDuration(s) ==
    DurationOf({h \in {<<q, DurationAt(s, q)>> : q \in 1..Len(s)} : h[2] # -1})

\* (AM|PM) under the flag i at p: 0 for AM, 1 for PM, -1 for neither
MeridiemAt(s, p) ==
    IF LitAt(s, p, <<"a","m">>) THEN 0 ELSE IF LitAt(s, p, <<"p","m">>) THEN 1 ELSE -1

\* DateTime.fromFormat(group, 'h:mm a') of the group
\* (\d{1,2}):(\d{2})\s*(AM|PM), formatted again: the format wants one blank
\* before the meridiem
ParseTime(h, mm, blanks, a) ==
    IF blanks # <<" ">> \/ mm > 59 \/ h > 24 \/ (h = 24 /\ mm # 0) THEN InvalidDateTime
    ELSE IF h < 12 /\ a = 1 THEN TimeOfMinute((h + 12) * 60 + mm)
    ELSE IF h = 12 /\ a = 0 THEN TimeOfMinute(mm)
    ELSE TimeOfMinute(h * 60 + mm)

\* (\d{1,2}:\d{2}\s*(?:AM|PM)) at g with the hour's last digit at e
TimeGroupAt(s, g, e) ==
    IF e # 0 /\ e + 3 <= Len(s) /\ s[e + 1] = ":" /\ IsDigit(s[e + 2]) /\ IsDigit(s[e + 3])
       /\ MeridiemAt(s, SpaceRunEnd(s, e + 4) + 1) # -1
    THEN << ParseTime(ParseInt(SubSeq(s, g, e)), ParseInt(SubSeq(s, e + 2, e + 3)),
                      SubSeq(s, e + 4, SpaceRunEnd(s, e + 4)),
                      MeridiemAt(s, SpaceRunEnd(s, e + 4) + 1)) >>
    ELSE <<>>

\* /(?:\[|started at\s*)(...)/i at p: << the parsed time >>, or <<>>
StartTimeAt(s, p) ==
    IF p <= Len(s) /\ s[p] = "["
    THEN TimeGroupAt(s, p + 1, OneOrTwoDigitsEnd(s, p + 1))
    ELSE IF LitAt(s, p, <<"s","t","a","r","t","e","d"," ","a","t">>)
    THEN TimeGroupAt(s, SpaceRunEnd(s, p + 10) + 1,
                     OneOrTwoDigitsEnd(s, SpaceRunEnd(s, p + 10) + 1))
    ELSE <<>>

\* '10:00 AM'
DefaultStartTime == <<10, 0>>

MetadataStartTime(s) ==
    OrElse(LeftmostOf(s, StartTimeAt), <<DefaultStartTime>>)[1]

\* DateTime.fromFormat(startTime, 'hh:mm a').plus({ minutes }).toFormat('hh:mm a')
MetadataEndTime(startTime, duration) ==
    IF startTime = InvalidDateTime THEN InvalidDateTime
    ELSE TimeOfMinute(startTime[1] * 60 + startTime[2] + duration)

\* Array.from(this.employeeNames.values()); the Map keeps the order in
\* which its keys were first set, which the model does not keep: the
\* participants are the set of the values
Participants(names) == {names[c] : c \in DOMAIN names}

extractMetadata(s, names, today) ==
    [ date         |-> MetadataDate(s, today),
      startTime    |-> MetadataStartTime(s),
      endTime      |-> MetadataEndTime(MetadataStartTime(s), MetadataDuration(s)),
      participants |-> Participants(names) ]

-----------------------------------------------------------------------------
(* Specification SpecMerge: deduplicateAndMergeTasks on one assignee's list *)

MaxTasks == 3

DescUpdateCache   == Join(<<w_update, w_cache>>)
DescReviewDocs    == Join(<<w_review, w_docs>>)
DescBoth          == Join(<<w_update, w_cache, w_review, w_docs>>)
DescPleaseUpdate  == Join(<<w_Please, w_update, w_cache>>)
DescUpperKeys     == Join(<<w_Update, w_Cache, w_keys>>)
DescCacheTwice    == Join(<<w_cache, w_cache, w_warmup>>)
DescIllReview     == Join(<<w_Ill, w_review>>)

MergeDescriptions ==
    { DescUpdateCache, DescReviewDocs, DescBoth, DescPleaseUpdate,
      DescUpperKeys, DescCacheTwice, DescIllReview }

MergeDeadlines == { <<2025, 4, 24>>, <<2025, 4, 29>> }

MergePriorities == Priorities

\* the priority and deadline a task of an input list comes with: the Medium
\* tasks are the ones due later
MergeStamps ==
    { st \in MergePriorities \X MergeDeadlines :
         (st[1] = "Medium") <=> (st[2] = <<2025, 4, 29>>) }

\* the i-th task of an input list: ids differ by position
InputTask(i, d, p, dl) ==
    [ id |-> i, description |-> d, assignedTo |-> <<"T","o","m"," ","W","i","l","s","o","n">>,
      assignedDate |-> <<2025, 4, 22>>, deadline |-> dl, priority |-> p,
      status |-> "pending" ]

\* the caller (addTask) pushes one more task on the assignee's list
PushInput ==
    /\ mergePc = "input"
    /\ Len(tasksIn) < MaxTasks
    /\ \E d \in MergeDescriptions, st \in MergeStamps :
          tasksIn' = Append(tasksIn, InputTask(Len(tasksIn) + 1, d, st[1], st[2]))
    /\ UNCHANGED <<mergePc, merged, remerged, dateVars, objectVars, extractVars, analyzeVars>>

IdleMerge ==
    /\ mergePc = "idle"
    /\ tasksIn = <<>>
    /\ merged = <<>>
    /\ remerged = <<>>

IdleDate ==
    /\ dateContext = 0
    /\ now = 0
    /\ datePc = "idle"
    /\ fragment = <<>>
    /\ resolved = <<>>

IdleObject ==
    /\ text = <<>>
    /\ apiKey = <<>>
    /\ ctor = "absent"
    /\ employeeNames = <<>>

IdleExtract ==
    /\ extractPc = "idle"
    /\ dialogues = <<>>
    /\ index = 0
    /\ inDecisionList = FALSE
    /\ lastSpeaker = <<>>
    /\ tasks = <<>>

IdleAnalyze ==
    /\ analyzePc = "idle"
    /\ candidates = <<>>
    /\ decisions = <<>>
    /\ queries = <<>>
    /\ employeeTaskMap = <<>>
    /\ analysis = <<>>

InitMerge ==
    /\ mergePc = "input"
    /\ tasksIn = <<>>
    /\ merged = <<>>
    /\ remerged = <<>>
    /\ IdleDate
    /\ IdleObject
    /\ IdleExtract
    /\ IdleAnalyze

Merge ==
    /\ mergePc = "input"
    /\ merged' = deduplicateAndMergeTasks(tasksIn)
    /\ mergePc' = "merged"
    /\ UNCHANGED <<tasksIn, remerged, dateVars, objectVars, extractVars, analyzeVars>>

MergeAgain ==
    /\ mergePc = "merged"
    /\ remerged' = deduplicateAndMergeTasks(merged)
    /\ mergePc' = "remerged"
    /\ UNCHANGED <<tasksIn, merged, dateVars, objectVars, extractVars, analyzeVars>>

NextMerge == PushInput \/ Merge \/ MergeAgain

SpecMerge == InitMerge /\ [][NextMerge]_vars

-----------------------------------------------------------------------------
(* Specification SpecDate: extractDate on one text fragment *)

w_by       == <<"b","y">>
w_next     == <<"n","e","x","t">>
w_Friday   == <<"F","r","i","d","a","y">>
w_friday   == <<"f","r","i","d","a","y">>
w_Monday   == <<"M","o","n","d","a","y">>
w_Thursday == <<"T","h","u","r","s","d","a","y">>
w_ThursdayQ == <<"T","h","u","r","s","d","a","y","?">>
w_tomorrow == <<"t","o","m","o","r","r","o","w">>
w_in       == <<"i","n">>
w_3        == <<"3">>
w_days     == <<"d","a","y","s">>
w_report   == <<"r","e","p","o","r","t">>
w_the      == <<"t","h","e">>
w_iso      == <<"2","0","2","5","-","0","5","-","0","2">>
w_5th      == <<"5","t","h">>
w_of       == <<"o","f">>
w_May      == <<"M","a","y">>
w_week     == <<"w","e","e","k">>

\* the first day of the meeting-date contexts: Monday 2025-04-21
FirstContext == FromISO(<<2025, 4, 21>>)

\* the number of consecutive meeting-date contexts tried
ContextDays == 14

\* the processing date is the meeting date or up to this many days after it
MaxLag == 1

Fragments ==
    { Join(<<w_by, w_Friday>>),
      Join(<<w_report, w_by, w_friday>>),
      Join(<<w_by, w_Monday>>),
      Join(<<w_by, w_ThursdayQ>>),
      Join(<<w_next, w_Friday>>),
      Join(<<w_next, w_Monday>>),
      Join(<<w_by, w_Friday, w_tomorrow>>),
      Join(<<w_iso, w_by, w_Friday>>),
      Join(<<w_in, w_3, w_days>>),
      Join(<<w_next, w_week>>),
      Join(<<w_by, w_the, w_5th, w_of, w_May>>),
      Join(<<w_review, w_the, w_report>>) }

InitDate ==
    /\ IdleMerge
    /\ IdleObject
    /\ IdleExtract
    /\ IdleAnalyze
    /\ dateContext \in FirstContext..(FirstContext + ContextDays - 1)
    /\ now \in dateContext..(dateContext + MaxLag)
    /\ datePc = "idle"
    /\ fragment = <<>>
    /\ resolved = <<>>

\* a caller hands a fragment to extractDate
CallExtractDate ==
    /\ datePc = "idle"
    /\ fragment' \in Fragments
    /\ datePc' = "call"
    /\ UNCHANGED <<dateContext, now, resolved, mergeVars, objectVars, extractVars, analyzeVars>>

\* extractDate returns
ReturnExtractDate ==
    /\ datePc = "call"
    /\ resolved' = extractDate(fragment, dateContext, now)
    /\ datePc' = "returned"
    /\ UNCHANGED <<dateContext, now, fragment, mergeVars, objectVars, extractVars, analyzeVars>>

NextDate == CallExtractDate \/ ReturnExtractDate

SpecDate == InitDate /\ [][NextDate]_vars

-----------------------------------------------------------------------------
(* Specification SpecExtract: a TextAnalyzer is built on a transcript and *)
(* extractTasks runs on it                                                *)

HeaderLine == <<"D","a","t","e",":"," ","2","0","2","5","-","0","4","-","2","2">>

\* the header of a transcript whose meeting is a month later
LaterHeaderLine == <<"D","a","t","e",":"," ","2","0","2","5","-","0","5","-","2","2">>

RosterLine == <<"P","a","r","t","i","c","i","p","a","n","t","s",":"," ","J","o","h","n"," ","S","m","i","t","h"," ","(","J","S",")",","," ","T","o","m"," ","W","i","l","s","o","n"," ","(","T","W",")">>

UtterancePool ==
    { <<"J","S",":"," ","T","o","m",","," ","c","a","n"," ","y","o","u"," ","f","i","x"," ","t","h","e"," ","R","e","d","i","s"," ","c","a","c","h","i","n","g"," ","i","s","s","u","e"," ","b","y"," ","T","h","u","r","s","d","a","y","?">>,
      <<"T","W",":"," ","J","o","h","n",","," ","c","a","n"," ","y","o","u"," ","u","p","d","a","t","e"," ","t","h","e"," ","r","e","p","o","r","t"," ","b","y"," ","F","r","i","d","a","y","?">>,
      <<"T","W",":"," ","I","'","l","l"," ","f","i","x"," ","i","t",".">>,
      <<"J","S",":"," ","T","h","e"," ","d","e","c","i","s","i","o","n","s"," ","f","o","r"," ","t","o","d","a","y"," ","a","r","e",":">>,
      <<"J","S",":"," ","1","."," ","T","o","m"," ","w","i","l","l"," ","u","p","d","a","t","e"," ","t","h","e"," ","c","a","c","h","e"," ","k","e","y","s"," ","a","s","a","p">>,
      <<"T","W",":"," ","o","k">>,
      <<"A","g","e","n","d","a"," ","f","o","r"," ","t","h","e"," ","w","e","e","k">> }

\* the most lines of the pool a transcript holds
MaxUtterances == 2

\* the ids Math.random().toString(36).substr(2, 9) can give are 1..MaxIds
MaxIds == 2

Ids == 1..MaxIds

ApiKey == <<"h","f","_","k","e","y">>

\* the transcript so far with one more line
WithLine(s, line) == IF s = <<>> THEN line ELSE s \o <<"\n">> \o line

\* the lines of the pool in a transcript
PoolLines(s) == {i \in DOMAIN Lines(s) : Lines(s)[i] \in UtterancePool}

\* the day after the header's date
FirstNow == FromISO(<<2025, 4, 23>>)

\* a transcript is being received: its header and roster, if any, are there
InitObject ==
    /\ text \in { <<>>, HeaderLine, LaterHeaderLine, RosterLine,
                  WithLine(HeaderLine, RosterLine) }
    /\ apiKey \in {<<>>, ApiKey}
    /\ ctor = "none"
    /\ employeeNames = <<>>
    /\ now \in FirstNow..(FirstNow + MaxLag)
    /\ dateContext = 0
    /\ datePc = "idle"
    /\ fragment = <<>>
    /\ resolved = <<>>

InitExtract ==
    /\ InitObject
    /\ IdleMerge
    /\ IdleExtract
    /\ IdleAnalyze

\* one more line of the transcript is received
ReceiveLine ==
    /\ ctor = "none"
    /\ Cardinality(PoolLines(text)) < MaxUtterances
    /\ \E line \in UtterancePool : text' = WithLine(text, line)
    /\ UNCHANGED <<apiKey, ctor, employeeNames, dateVars, mergeVars, extractVars, analyzeVars>>

\* new TextAnalyzer(text, apiKey): new AIAnalyzer(apiKey) throws without a key
Construct ==
    /\ ctor = "none"
    /\ dateContext' = extractMeetingDate(text, now)
    /\ employeeNames' = extractEmployeeNames(text)
    /\ ctor' = IF apiKey = <<>> THEN "threw" ELSE "ok"
    /\ UNCHANGED <<text, apiKey, now, datePc, fragment, resolved, mergeVars, extractVars, analyzeVars>>

\* extractTasks is entered: parseDialogue
BeginExtractTasks ==
    /\ ctor = "ok"
    /\ extractPc = "idle"
    /\ dialogues' = parseDialogue(text)
    /\ index' = 1
    /\ extractPc' = "decisions"
    /\ UNCHANGED <<inDecisionList, lastSpeaker, tasks, mergeVars, dateVars, objectVars, analyzeVars>>

\* one iteration of the decision-list forEach
DecisionStep ==
    /\ extractPc = "decisions"
    /\ index <= Len(dialogues)
    /\ \E id \in Ids :
         LET dialogue == dialogues[index]
             match == numberedTaskPattern(dialogue.content)
             assignee == IF DecisionAssignee(match[1]) # <<>>
                         THEN DecisionAssignee(match[1]) ELSE lastSpeaker
         IN  IF decisionListPattern(dialogue.content)
             THEN /\ inDecisionList' = TRUE
                  /\ lastSpeaker' = dialogue.speaker
                  /\ tasks' = tasks
             ELSE IF inDecisionList /\ match # <<>>
             THEN /\ tasks' = addTask(tasks, assignee, match[1], <<>>, id,
                                      employeeNames, dateContext, now)
                  /\ UNCHANGED <<inDecisionList, lastSpeaker>>
             ELSE /\ inDecisionList' = FALSE
                  /\ UNCHANGED <<lastSpeaker, tasks>>
    /\ index' = index + 1
    /\ UNCHANGED <<extractPc, dialogues, mergeVars, dateVars, objectVars, analyzeVars>>

\* the decision-list forEach is over; the per-utterance forEach starts
BeginUtterances ==
    /\ extractPc = "decisions"
    /\ index > Len(dialogues)
    /\ extractPc' = "utterances"
    /\ index' = 1
    /\ UNCHANGED <<dialogues, inDecisionList, lastSpeaker, tasks,
                   mergeVars, dateVars, objectVars, analyzeVars>>

\* what an utterance gives to addTask: the first usable pattern's match,
\* else the whole utterance for its speaker when it is task-like, else <<>>
UtteranceTask(match, dialogue) ==
    IF match # <<>> THEN match
    ELSE IF isTaskLike(dialogue.content) THEN << dialogue.speaker, dialogue.content >>
    ELSE <<>>

AddUtteranceTask(map, found, contextWindow, id) ==
    IF found = <<>> THEN map
    ELSE addTask(map, found[1], found[2], contextWindow, id,
                 employeeNames, dateContext, now)

\* one iteration of the per-utterance forEach
UtteranceStep ==
    /\ extractPc = "utterances"
    /\ index <= Len(dialogues)
    /\ \E id \in Ids :
         tasks' = AddUtteranceTask(tasks,
                      UtteranceTask(FirstTaskPattern(1, dialogues[index].content,
                                                     dialogues[index].speaker),
                                    dialogues[index]),
                      ContextWindow(dialogues, index), id)
    /\ index' = index + 1
    /\ UNCHANGED <<extractPc, dialogues, inDecisionList, lastSpeaker,
                   mergeVars, dateVars, objectVars, analyzeVars>>

\* the per-utterance forEach is over: every assignee's list is deduplicated
\* and extractTasks returns
ReturnExtractTasks ==
    /\ extractPc = "utterances"
    /\ index > Len(dialogues)
    /\ tasks' = [a \in DOMAIN tasks |-> deduplicateAndMergeTasks(tasks[a])]
    /\ extractPc' = "done"
    /\ UNCHANGED <<dialogues, index, inDecisionList, lastSpeaker,
                   mergeVars, dateVars, objectVars, analyzeVars>>

NextExtract ==
    \/ ReceiveLine
    \/ Construct
    \/ BeginExtractTasks
    \/ DecisionStep
    \/ BeginUtterances
    \/ UtteranceStep
    \/ ReturnExtractTasks

SpecExtract == InitExtract /\ [][NextExtract]_vars

-----------------------------------------------------------------------------
(* Specification SpecAnalyze: a TextAnalyzer is built on a transcript and  *)
(* analyze runs on it.  The provider answers each call it has been sent,   *)
(* in any order, or not at all: axios.post is given no timeout.            *)

\* AIAnalyzer.parseTranscript: the lines that match /^([A-Z]{2}):\s*(.*)/, the
\* content trimmed
AI_parseTranscript(s) == ParseLines(Lines(s), 1, <<>>)

\* the calls analyzeText sends: one for the summary, one for each task and
\* one for each decision to validate
QueryIds(nTasks, nDecisions) ==
    {<<"summary", 1>>} \cup {<<"task", i>> : i \in 1..nTasks}
                       \cup {<<"keyPoint", j>> : j \in 1..nDecisions}

\* what the provider can answer to a call: the summary, or a label that
\* passes ("yes") or not ("no") the validation, or an error
Answers(q) == IF q[1] = "summary" THEN {"yes", "failed"} ELSE {"yes", "no", "failed"}

Operations == {"summary", "task", "keyPoint"}

\* the promise of generateSummary, identifyTasks or extractKeyPoints: the
\* Promise.all inside rejects with the first call that fails and fulfils
\* when every call has been answered
OperationState(qs, op) ==
    IF \E q \in DOMAIN qs : q[1] = op /\ qs[q] = "failed" THEN "rejected"
    ELSE IF \A q \in DOMAIN qs : q[1] = op => qs[q] # "pending" THEN "fulfilled"
    ELSE "pending"

\* the promise of Promise.all([generateSummary, identifyTasks, extractKeyPoints])
FanOutState(qs) ==
    IF \E op \in Operations : OperationState(qs, op) = "rejected" THEN "rejected"
    ELSE IF \A op \in Operations : OperationState(qs, op) = "fulfilled" THEN "fulfilled"
    ELSE "pending"

\* the indices 1..n whose call of the kind was answered "yes", in order
Validated(qs, kind, n) ==
    SelectSeq([i \in 1..n |-> i], LAMBDA i : qs[<<kind, i>>] = "yes")

\* the text identifyTasks hands to determinePriority and extractDeadline
AI_TaskText(task) == task.content \o <<" ">> \o Join(task.context)

\* validatedTask of identifyTasks
AI_ValidatedTask(task, today, legacy) ==
    [ description |-> task.content,
      priority    |-> AI_determinePriority(AI_TaskText(task), today, legacy),
      deadline    |-> AI_extractDeadline(AI_TaskText(task), today, legacy),
      assignee    |-> task.assignee ]

\* aiAnalysis.tasks
AI_FinalTasks(cands, valid, today, legacy) ==
    [ k \in DOMAIN valid |-> AI_ValidatedTask(cands[valid[k]], today, legacy) ]

\* the Task analyze makes of an AI task, Math.random giving id
TaskOfAI(task, id, names, date, today) ==
    [ id           |-> id,
      description  |-> task.description,
      assignedTo   |-> IF task.assignee \in DOMAIN names THEN names[task.assignee]
                       ELSE task.assignee,
      assignedDate |-> date,
      deadline     |-> IF task.deadline # <<>> THEN task.deadline ELSE ToFormat(today + 7),
      priority     |-> task.priority,
      status       |-> "pending" ]

\* employeeTaskMap.get(assignee).push(task), the key set when it is new
PushEntry(map, assignee, task) ==
    IF \E e \in DOMAIN map : map[e][1] = assignee
    THEN [ e \in DOMAIN map |->
             IF map[e][1] = assignee THEN <<assignee, Append(map[e][2], task)>> ELSE map[e] ]
    ELSE Append(map, <<assignee, <<task>>>>)

RECURSIVE BuildTaskMap(_, _, _, _, _, _, _)
\* the forEach of analyze over aiAnalysis.tasks, from task k on
BuildTaskMap(aiTasks, k, map, ids, names, date, today) ==
    IF k > Len(aiTasks) THEN map
    ELSE BuildTaskMap(aiTasks, k + 1,
             PushEntry(map, aiTasks[k].assignee,
                       TaskOfAI(aiTasks[k], ids[k], names, date, today)),
             ids, names, date, today)

\* the employees of analyze: the entries whose key is a key of employeeNames
EmployeesOf(map, names) ==
    [ k \in DOMAIN SelectSeq(map, LAMBDA e : e[1] \in DOMAIN names) |->
        [ name       |-> names[SelectSeq(map, LAMBDA e : e[1] \in DOMAIN names)[k][1]],
          tasks      |-> SelectSeq(map, LAMBDA e : e[1] \in DOMAIN names)[k][2],
          totalTasks |-> Len(SelectSeq(map, LAMBDA e : e[1] \in DOMAIN names)[k][2]) ] ]

RECURSIVE CountTasks(_, _)
\* employees.reduce((sum, emp) => sum + emp.tasks.length, 0), from employee k on
CountTasks(employees, k) ==
    IF k > Len(employees) THEN 0
    ELSE Len(employees[k].tasks) + CountTasks(employees, k + 1)

RECURSIVE CountHighPriority(_, _)
\* employees.reduce((sum, emp) =>
\*    sum + emp.tasks.filter(t => t.priority === 'High').length, 0)
CountHighPriority(employees, k) ==
    IF k > Len(employees) THEN 0
    ELSE Len(SelectSeq(employees[k].tasks, LAMBDA t : t.priority = "High"))
         + CountHighPriority(employees, k + 1)

\* totalTasks / employees.length as the fraction <<numerator, denominator>>,
\* <<0, 1>> when there is no employee
TasksPerPerson(totalTasks, count) == IF count > 0 THEN <<totalTasks, count>> ELSE <<0, 1>>

StatisticsOf(employees) ==
    [ totalTasks        |-> CountTasks(employees, 1),
      highPriorityTasks |-> CountHighPriority(employees, 1),
      tasksPerPerson    |-> TasksPerPerson(CountTasks(employees, 1), Len(employees)) ]

\* the summary text of the provider's answer
SummaryText == <<"s","u","m","m","a","r","y","_","t","e","x","t">>

\* what analyze returns
AnalysisOf(employees, metadata, keyPoints) ==
    [ employees      |-> employees,
      meetingDetails |-> [ date         |-> metadata.date,
                           startTime    |-> metadata.startTime,
                           endTime      |-> metadata.endTime,
                           participants |-> metadata.participants,
                           summary      |-> SummaryText,
                           keyDecisions |-> keyPoints ],
      statistics     |-> StatisticsOf(employees) ]

\* what new Date(dateStr) gives for a date written with a month name
LegacyParses == { <<>>, <<2001, 5, 5>> }

InitAnalyze ==
    /\ InitObject
    /\ IdleMerge
    /\ IdleExtract
    /\ IdleAnalyze

\* analyze is called: analyzeText parses the transcript and starts the three
\* operations, each of which runs up to the calls it awaits
CallAnalyze ==
    /\ ctor = "ok"
    /\ analyzePc = "idle"
    /\ candidates' = AI_TaskCandidates(AI_parseTranscript(text))
    /\ decisions' = AI_Decisions(AI_parseTranscript(text))
    /\ queries' = [ q \in QueryIds(Len(candidates'), Len(decisions')) |-> "pending" ]
    /\ analyzePc' = "running"
    /\ UNCHANGED <<employeeTaskMap, analysis, mergeVars, dateVars, objectVars, extractVars>>

\* analyze goes on after the fan-out is fulfilled with the validated tasks
\* and key points and the metadata of the transcript, Math.random giving ids
FinishAnalyze(aiTasks, keyPoints, metadata, ids) ==
    /\ employeeTaskMap' =
          BuildTaskMap(aiTasks, 1, <<>>, ids, employeeNames, metadata.date, now)
    /\ analysis' =
          AnalysisOf(EmployeesOf(employeeTaskMap', employeeNames), metadata, keyPoints)
    /\ analyzePc' = "returned"

\* analyze goes on with each choice of ids Math.random can make
ReturnWith(aiTasks, keyPoints, metadata) ==
    \E ids \in [DOMAIN aiTasks -> Ids] : FinishAnalyze(aiTasks, keyPoints, metadata, ids)

\* analyze goes on with the tasks as they are for each parse new Date can make
ReturnAnalyze(qs, valid) ==
    \E legacy \in LegacyParses :
       ReturnWith(AI_FinalTasks(candidates, valid, now, legacy),
                  [ k \in DOMAIN Validated(qs, "keyPoint", Len(decisions)) |->
                      decisions[Validated(qs, "keyPoint", Len(decisions))[k]] ],
                  extractMetadata(text, employeeNames, now))

\* the promise reactions after an answer: the operation and the fan-out
\* settle; a rejected fan-out makes analyzeText and then analyze throw, a
\* fulfilled one lets analyze build what it returns.  Answers that come after
\* analyze has thrown change no outcome.
Settle(qs, fanOut) ==
    IF analyzePc = "running" /\ fanOut = "fulfilled"
    THEN ReturnAnalyze(qs, Validated(qs, "task", Len(candidates)))
    ELSE /\ analyzePc' = IF analyzePc = "running" /\ fanOut = "rejected"
                         THEN "threw" ELSE analyzePc
         /\ UNCHANGED <<employeeTaskMap, analysis>>

\* the provider answers one call
ProviderAnswers ==
    \E q \in DOMAIN queries :
       /\ queries[q] = "pending"
       /\ \E answer \in Answers(q) :
             /\ queries' = [queries EXCEPT ![q] = answer]
             /\ Settle(queries', FanOutState(queries'))
       /\ UNCHANGED <<candidates, decisions, mergeVars, dateVars, objectVars, extractVars>>

NextAnalyze ==
    \/ ReceiveLine
    \/ Construct
    \/ CallAnalyze
    \/ ProviderAnswers

SpecAnalyze == InitAnalyze /\ [][NextAnalyze]_vars

-----------------------------------------------------------------------------
(* Claims about deduplicateAndMergeTasks *)

\* C1: merging is idempotent: merging the result of a merge again gives the
\* same list (same tasks, order, description, priority, deadline and id).
C1_MergeIdempotent == mergePc = "remerged" => remerged = merged

\* the tokens two descriptions share, each counted once
SharedTokens(d1, d2) == Range(tokenize(d1)) \cap Range(tokenize(d2))

\* the shared tokens are at least 60% of the shorter description's tokens
SharesSixtyPercent(d1, d2) ==
    Cardinality(SharedTokens(d1, d2)) * 10
        >= Min(Len(tokenize(d1)), Len(tokenize(d2))) * 6

\* C2: of a two-task input, the two tasks are collapsed into one record when
\* they share at least 60% of the shorter (normalized) description's tokens,
\* and both are in the output as distinct records when they share less.
C2_TwoTaskMerge ==
    (mergePc # "input" /\ Len(tasksIn) = 2) =>
        LET d1 == normalizeTaskDescription(tasksIn[1].description)
            d2 == normalizeTaskDescription(tasksIn[2].description)
        IN  IF SharesSixtyPercent(d1, d2)
            THEN Len(merged) = 1
            ELSE /\ Len(merged) = 2
                 /\ merged[1].id = tasksIn[1].id
                 /\ merged[2].id = tasksIn[2].id

-----------------------------------------------------------------------------
(* Claims about extractDate *)

\* the fragment holds the word w1 directly followed by the word w2
HasWordPair(t, w1, w2) ==
    LET ws == Split(Lower(t))
    IN  \E i \in 1..(Len(ws) - 1) : ws[i] = w1 /\ ws[i + 1] = w2

HasISODate(t) == \E p \in 1..Len(t) : IsoShapeAt(t, p)

\* C3: a fragment with "by Friday" and no ISO date, resolved when the meeting
\* date is a Monday, gives the Friday of that same week: four days later.
C3_ByFridayFromMonday ==
    ( /\ datePc = "returned"
      /\ HasWordPair(fragment, w_by, w_friday)
      /\ ~HasISODate(fragment)
      /\ Weekday(dateContext) = 1 )
    => resolved = <<dateContext + 4>>

\* C4: a fragment with "next Friday", no ISO date and no "by <weekday>",
\* gives for every weekday of the meeting date the day 7 days after the
\* Friday of the meeting date's own week.
C4_NextFriday ==
    ( /\ datePc = "returned"
      /\ HasWordPair(fragment, w_next, w_friday)
      /\ ~HasISODate(fragment)
      /\ ~\E i \in DOMAIN Split(fragment) : Lower(Split(fragment)[i]) = w_by )
    => resolved = <<(dateContext - (Weekday(dateContext) - 1)) + 4 + 7>>

-----------------------------------------------------------------------------
(* Claims about extractTasks *)

\* the request "<FirstName>, can you <task> by <weekday>?" in an utterance:
\* << FIRSTNAME, <task>, weekday name >>, or <<>> when it has not that form
RequestOf(content) ==
    LET m == NamedRequest(content, <<","," ","c","a","n"," ","y","o","u"," ">>, "?")
        days == {d \in DOMAIN weekdays :
                    /\ m # <<>>
                    /\ Len(m[2]) > Len(d) + 4
                    /\ LitAt(m[2], Len(m[2]) - Len(d) - 3, <<" ","b","y"," ">> \o d)
                    /\ Len(m[2]) + Len(m[1]) + 11 = Len(content)}
    IN  IF days = {} THEN <<>>
        ELSE LET d == CHOOSE x \in days : TRUE
             IN  << m[1], SubSeq(m[2], 1, Len(m[2]) - Len(d) - 4), d >>

\* the full names the roster declares for a first name
RosterNames(first) ==
    { RosterAt(text, q)[1] : q \in {p \in 1..Len(text) :
         /\ RosterAt(text, p) # <<>>
         /\ Upper(SubSeq(RosterAt(text, p)[1], 1, Len(first))) = first
         /\ RosterAt(text, p)[1][Len(first) + 1] = " "} }

\* the first day with the weekday on or after day n
OnOrAfter(n, weekday) == n + ((weekday - Weekday(n)) % 7)

\* C5: an utterance "<FirstName>, can you <task> by <weekday>?" that is the
\* only one of a transcript whose roster declares "<FirstName> <LastName> (XX)"
\* yields exactly one task: assigned to that full name, its description
\* containing <task>, its deadline that weekday on or after the meeting
\* date, and its priority the tiered classifier's.
C5_RequestYieldsOneTask ==
    ( /\ extractPc = "done"
      /\ Len(dialogues) = 1
      /\ RequestOf(dialogues[1].content) # <<>>
      /\ RosterNames(RequestOf(dialogues[1].content)[1]) # {} )
    => LET request == RequestOf(dialogues[1].content)
       IN  \E a \in DOMAIN tasks :
              /\ DOMAIN tasks = {a}
              /\ Len(tasks[a]) = 1
              /\ tasks[a][1].assignedTo \in RosterNames(request[1])
              /\ Contains(tasks[a][1].description, Lower(request[2]))
              /\ tasks[a][1].deadline =
                     ToFormat(OnOrAfter(dateContext, weekdays[request[3]]))
              /\ tasks[a][1].priority = determinePriority(dialogues[1].content, <<>>)

C5_Reached ==
    /\ extractPc = "done"
    /\ Len(dialogues) = 1
    /\ RequestOf(dialogues[1].content) # <<>>
    /\ RosterNames(RequestOf(dialogues[1].content)[1]) # {}
    /\ DOMAIN tasks # {}

-----------------------------------------------------------------------------
(* Claims about analyze *)

\* analyze has ended, by returning or by throwing
AnalyzeEnded == analyzePc \in {"returned", "threw"}

\* C6: for a transcript without any speaker line, the empty one included,
\* analyze returns without failing, and what it returns has no employee, no
\* task, no high-priority task and 0 tasks per person.
C6_NoSpeakerLines ==
    (Len(parseDialogue(text)) = 0 /\ AnalyzeEnded)
    => /\ analyzePc = "returned"
       /\ analysis.employees = <<>>
       /\ analysis.statistics.totalTasks = 0
       /\ analysis.statistics.highPriorityTasks = 0
       /\ analysis.statistics.tasksPerPerson = <<0, 1>>

\* C7: when a call to the provider has failed, analyze does not end in an
\* error: it returns an analysis with employees, statistics and meeting details.
C7_ProviderFailure ==
    ((\E q \in DOMAIN queries : queries[q] = "failed") /\ AnalyzeEnded)
    => /\ analyzePc = "returned"
       /\ DOMAIN analysis = {"employees", "meetingDetails", "statistics"}

\* C8: a TextAnalyzer built from a transcript alone, without a credential for
\* the provider, is constructed, and its analyze does not end in an error.
C8_NoCredential ==
    (apiKey = <<>> /\ ctor # "none") => (ctor = "ok" /\ analyzePc # "threw")

\* the operations of the fan-out that are in the state
OperationsIn(state) == {op \in Operations : OperationState(queries, op) = state}

\* C9: analyze ends only when each of the three operations has settled, and
\* when one operation alone has failed and the other two have succeeded
\* analyze returns.
C9_FanOutSettles ==
    AnalyzeEnded
    => /\ OperationsIn("pending") = {}
       /\ (Cardinality(OperationsIn("rejected")) = 1
           /\ Cardinality(OperationsIn("fulfilled")) = 2) => analyzePc = "returned"

\* C10: in one run no two tasks made by addTask, and no two tasks made by
\* analyze, have the same id, whatever ids the generator gives.
C10_UniqueIds ==
    /\ \A a \in DOMAIN tasks, b \in DOMAIN tasks :
          \A i \in DOMAIN tasks[a], j \in DOMAIN tasks[b] :
             (a # b \/ i # j) => tasks[a][i].id # tasks[b][j].id
    /\ \A d \in DOMAIN employeeTaskMap, e \in DOMAIN employeeTaskMap :
          \A i \in DOMAIN employeeTaskMap[d][2], j \in DOMAIN employeeTaskMap[e][2] :
             (d # e \/ i # j) => employeeTaskMap[d][2][i].id # employeeTaskMap[e][2][j].id

-----------------------------------------------------------------------------
(* Claims about the tasks' fields *)

\* the tasks made in the run: by addTask into tasks, by analyze into
\* employeeTaskMap
CreatedTasks ==
    UNION { {tasks[a][k] : k \in DOMAIN tasks[a]} : a \in DOMAIN tasks }
    \cup UNION { {employeeTaskMap[e][2][k] : k \in DOMAIN employeeTaskMap[e][2]} :
                    e \in DOMAIN employeeTaskMap }

\* C11: every task made in a run, by addTask or by analyze, is assigned to
\* the name of a participant of the registry or to "Unassigned".
C11_AssignedToKnown ==
    \A t \in CreatedTasks : t.assignedTo \in Participants(employeeNames) \cup {Unassigned}

\* the codes of the registry that no "Full Name (XX)" of the transcript declares
InlineOnlyCodes ==
    {c \in DOMAIN employeeNames : \A r \in RosterEntries(text) : r[2][2] # c}

\* C12: a code that is only an inline "XX: " marker resolves to no full name:
\* a task assigned to it has assignedTo = "Unassigned", never the code.
C12_InlineOnlyUnassigned ==
    \A t \in CreatedTasks : t.assignedTo \notin InlineOnlyCodes

-----------------------------------------------------------------------------
(* Claims about what extractTasks returns *)

\* C13: every task extractTasks returns has a description of 10 characters
\* or more, and a transcript whose utterances all clean to less than 10
\* characters (as "ok" does) gives no task.
C13_DescriptionLength ==
    extractPc = "done"
    => /\ \A a \in DOMAIN tasks : \A k \in DOMAIN tasks[a] :
             Len(tasks[a][k].description) >= 10
       /\ (\A i \in DOMAIN dialogues : Len(CleanDescription(dialogues[i].content)) < 10)
          => DOMAIN tasks = {}

\* what the only utterance of a transcript hands to addTask:
\* << assignee, description >>, or <<>>
OnlyCandidate ==
    UtteranceTask(FirstTaskPattern(1, dialogues[1].content, dialogues[1].speaker),
                  dialogues[1])

\* the first of the two dates that is not null, else day n
FirstDateOr(own, around, n) ==
    IF own # <<>> THEN own[1] ELSE IF around # <<>> THEN around[1] ELSE n

\* the only utterance of the transcript has gone through addTask and made a task
OnlyTaskAdded ==
    /\ extractPc \in {"utterances", "done"}
    /\ Len(dialogues) = 1
    /\ index > 1
    /\ DOMAIN tasks # {}

\* C14: the deadline addTask gives is the date resolved from the candidate's
\* own text, else the date resolved from its context window, else the task's
\* assignedDate plus 7 days.
C14_DeadlineRule ==
    OnlyTaskAdded
    => \A a \in DOMAIN tasks : \A k \in DOMAIN tasks[a] :
          tasks[a][k].deadline =
             ToFormat(FirstDateOr(extractDate(OnlyCandidate[2], dateContext, now),
                                  extractDate(Join(ContextWindow(dialogues, 1)),
                                              dateContext, now),
                                  FromISO(tasks[a][k].assignedDate) + 7))

\* an explicit date is written in s: yyyy-mm-dd or a day with a month name
StatesDate(s) ==
    \/ MatchISO(s) # <<>>
    \/ \E q \in 1..Len(s) : MonthDateAt(s, q) # <<>>
    \/ LeftmostOf(Lower(s), AI_ExplicitAt) # <<>>

\* no utterance of the transcript states an explicit date
NoStatedDate == \A i \in DOMAIN parseDialogue(text) : ~StatesDate(parseDialogue(text)[i].content)

\* C15: a task whose deadline comes from a relative phrase or from the
\* default, no utterance stating an explicit date, has a deadline that is not
\* earlier than its assignedDate.
C15_DeadlineNotBefore ==
    NoStatedDate
    => \A t \in CreatedTasks :
          Len(t.assignedDate) = 3 => FromISO(t.deadline) >= FromISO(t.assignedDate)

-----------------------------------------------------------------------------
(* Claims about what analyze returns *)

\* the tasks of the employees of the returned analysis
ReturnedTasks ==
    UNION { {analysis.employees[e].tasks[k] : k \in DOMAIN analysis.employees[e].tasks} :
               e \in DOMAIN analysis.employees }

\* the levels that are the High level: TaskPriority's and AIAnalyzer's
HighLevels == {"High", "HIGH"}

\* the number of tasks of the employees from the k-th on whose priority is
\* the High level
RECURSIVE HighLevelTasks(_, _)
HighLevelTasks(employees, k) ==
    IF k > Len(employees) THEN 0
    ELSE Len(SelectSeq(employees[k].tasks, LAMBDA t : t.priority \in HighLevels))
         + HighLevelTasks(employees, k + 1)

\* C16: in a returned analysis totalTasks is the sum of the employees' task
\* counts, highPriorityTasks is the number of those tasks whose priority is
\* the High level, and tasksPerPerson is totalTasks divided by the number of
\* employees, 0 when there is none.
C16_Statistics ==
    analyzePc = "returned"
    => /\ analysis.statistics.totalTasks = CountTasks(analysis.employees, 1)
       /\ analysis.statistics.highPriorityTasks = HighLevelTasks(analysis.employees, 1)
       /\ analysis.statistics.tasksPerPerson =
             IF Len(analysis.employees) = 0 THEN <<0, 1>>
             ELSE <<analysis.statistics.totalTasks, Len(analysis.employees)>>

\* C17: every task of a returned analysis has one of the priorities High,
\* Medium, Low and the status "pending".
C17_PriorityAndStatus ==
    analyzePc = "returned"
    => \A t \in ReturnedTasks : t.priority \in Priorities /\ t.status = "pending"

-----------------------------------------------------------------------------
(* Claims about the merged record *)

\* a list of two tasks was merged into one record: the second task was no
\* exact duplicate of the first, it was merged into it
TwoMerged ==
    /\ mergePc \in {"merged", "remerged"}
    /\ Len(tasksIn) = 2
    /\ Len(merged) = 1
    /\ normalizeTaskDescription(tasksIn[2].description)
          # normalizeTaskDescription(tasksIn[1].description)

\* the description of the first-seen record as the result list holds it
FirstSeenDescription == normalizeTaskDescription(tasksIn[1].description)

\* C18: the merged record keeps the longer of the two descriptions, and the
\* first-seen task's when both have the same length.
C18_LongerDescription ==
    TwoMerged
    => merged[1].description =
          IF Len(tasksIn[2].description) > Len(FirstSeenDescription)
          THEN tasksIn[2].description ELSE FirstSeenDescription

\* the rank of a priority: High > Medium > Low
Urgency(p) == CASE p = "High" -> 3 [] p = "Medium" -> 2 [] OTHER -> 1

\* C19: the merged record's priority is the most urgent of the two tasks'
\* priorities and its deadline is the earlier of their two deadlines.
C19_UrgentAndEarlier ==
    TwoMerged
    => /\ merged[1].priority \in {tasksIn[1].priority, tasksIn[2].priority}
       /\ Urgency(merged[1].priority) >= Urgency(tasksIn[1].priority)
       /\ Urgency(merged[1].priority) >= Urgency(tasksIn[2].priority)
       /\ merged[1].deadline \in {tasksIn[1].deadline, tasksIn[2].deadline}
       /\ FromISO(merged[1].deadline) <= FromISO(tasksIn[1].deadline)
       /\ FromISO(merged[1].deadline) <= FromISO(tasksIn[2].deadline)

\* a Medium task was merged with a High task that is due earlier
C19_Reached ==
    /\ TwoMerged
    /\ tasksIn[1].priority = "Medium"
    /\ tasksIn[2].priority = "High"
    /\ FromISO(tasksIn[2].deadline) < FromISO(tasksIn[1].deadline)
    /\ merged[1].priority = "High"
    /\ merged[1].deadline = tasksIn[2].deadline

\* the ids of a list of tasks
IdsOf(list) == {list[k].id : k \in DOMAIN list}

\* C20: an id never changes through a merge: every id of the output is the id
\* of an input task, the records keep the order and the ids of the first-seen
\* tasks of their groups, and merging the output again changes no id.
C20_IdsPreserved ==
    /\ mergePc \in {"merged", "remerged"}
       => /\ IdsOf(merged) \subseteq IdsOf(tasksIn)
          /\ \A k \in DOMAIN merged : \A j \in DOMAIN merged :
                k < j => merged[k].id < merged[j].id
          /\ merged # <<>> => merged[1].id = tasksIn[1].id
          /\ TwoMerged => merged[1].id = tasksIn[1].id /\ merged[1].id # tasksIn[2].id
    /\ mergePc = "remerged"
       => /\ IdsOf(remerged) \subseteq IdsOf(merged)
          /\ remerged # <<>> => remerged[1].id = merged[1].id

\* three tasks were merged into two records: the second joined the first
\* record, which carries the first task's id, and the third made its own
C20_Reached ==
    /\ mergePc = "merged"
    /\ Len(tasksIn) = 3
    /\ Len(merged) = 2
    /\ merged[1].description # normalizeTaskDescription(tasksIn[1].description)
    /\ merged[1].id = tasksIn[1].id
    /\ merged[2].id = tasksIn[3].id

-----------------------------------------------------------------------------
(* Claims about the order of the merged list *)

\* the lists that hold the tasks of a list in another order
Reorderings(list) ==
    { [k \in DOMAIN list |-> list[f[k]]] :
         f \in {g \in [DOMAIN list -> DOMAIN list] : \A a, b \in DOMAIN list : g[a] = g[b] => a = b} }

\* the (description, priority, deadline) triples of a list of tasks
TriplesOf(list) == { <<list[k].description, list[k].priority, list[k].deadline>> : k \in DOMAIN list }

\* C21: the merge outcome does not depend on the order of the list: every
\* reordering of one assignee's tasks gives as many records, with the same
\* (description, priority, deadline) triples.
C21_OrderIndependent ==
    mergePc = "merged"
    => \A other \in Reorderings(tasksIn) :
          /\ Len(deduplicateAndMergeTasks(other)) = Len(merged)
          /\ TriplesOf(deduplicateAndMergeTasks(other)) = TriplesOf(merged)

-----------------------------------------------------------------------------
(* Specification SpecTranscript: extractTasks on whole transcripts          *)

\* a transcript of small talk, a thanked promise, a short order and a proposal
SmallTalkTranscript == <<"T","W",":"," ","S","o","u","n","d","s"," ","r","e","a","s","o","n","a","b","l","e"," ","t","o"," ","m","e",".","\n","J","S",":"," ","T","h","a","n","k","s",","," ","I"," ","w","i","l","l"," ","c","h","e","c","k"," ","t","h","e"," ","l","o","g","s",".","\n","T","W",":"," ","F","i","x"," ","i","t",".","\n","J","S",":"," ","W","e"," ","s","h","o","u","l","d"," ","r","e","v","i","e","w"," ","t","h","e"," ","b","u","d","g","e","t",".">>

\* the decision list of the repository's sample transcript
RepositoryDecisions == <<"J","S",":"," ","G","r","e","a","t",","," ","s","o"," ","o","u","r"," ","d","e","c","i","s","i","o","n","s"," ","f","o","r"," ","t","o","d","a","y"," ","a","r","e",":","\n","1","."," ","T","o","m"," ","w","i","l","l"," ","f","i","x"," ","t","h","e"," ","G","o","o","g","l","e"," ","M","e","e","t"," ","t","o","k","e","n"," ","e","x","p","i","r","a","t","i","o","n"," ","i","s","s","u","e"," ","b","y"," ","T","h","u","r","s","d","a","y",","," ","t","h","e","n"," ","w","o","r","k"," ","o","n"," ","R","e","d","i","s"," ","o","p","t","i","m","i","z","a","t","i","o","n","\n","2","."," ","S","a","r","a","h"," ","w","i","l","l"," ","i","n","v","e","s","t","i","g","a","t","e"," ","t","r","a","n","s","c","r","i","p","t"," ","p","r","o","c","e","s","s","i","n","g"," ","d","e","l","a","y","s"," ","a","n","d"," ","r","e","p","o","r","t"," ","b","y"," ","F","r","i","d","a","y">>

\* a decision list whose items are utterances, a remark, and one more item
DecisionListTranscript == <<"J","S",":"," ","T","h","e"," ","d","e","c","i","s","i","o","n","s"," ","f","o","r"," ","t","o","d","a","y"," ","a","r","e",":","\n","J","S",":"," ","1","."," ","T","o","m"," ","w","i","l","l"," ","u","p","d","a","t","e"," ","t","h","e"," ","c","a","c","h","e"," ","k","e","y","s"," ","a","s","a","p","\n","T","W",":"," ","2","."," ","r","e","v","i","e","w"," ","t","h","e"," ","d","e","p","l","o","y","m","e","n","t"," ","c","h","e","c","k","l","i","s","t","\n","T","W",":"," ","S","o","u","n","d","s"," ","g","o","o","d"," ","t","o"," ","m","e","\n","J","S",":"," ","3","."," ","a","r","c","h","i","v","e"," ","t","h","e"," ","o","l","d"," ","s","p","r","i","n","t"," ","b","o","a","r","d">>

\* an introduction, a line of no speaker, and an ordinal utterance
InterruptedListTranscript == <<"J","S",":"," ","T","h","e"," ","d","e","c","i","s","i","o","n","s"," ","f","o","r"," ","t","o","d","a","y"," ","a","r","e",":","\n","A","n","y","t","h","i","n","g"," ","e","l","s","e"," ","w","e"," ","n","e","e","d"," ","t","o"," ","d","i","s","c","u","s","s","?","\n","T","W",":"," ","1","."," ","r","e","v","i","e","w"," ","t","h","e"," ","d","e","p","l","o","y","m","e","n","t"," ","c","h","e","c","k","l","i","s","t">>

\* a promise with no deadline, one due within 10 days, and a proposal due
\* within 5 days
AgendaTranscript == <<"T","W",":"," ","I"," ","w","i","l","l"," ","d","r","a","f","t"," ","t","h","e"," ","a","g","e","n","d","a",".">>

InvoiceTranscript == <<"T","W",":"," ","I"," ","w","i","l","l"," ","s","e","n","d"," ","t","h","e"," ","i","n","v","o","i","c","e"," ","w","i","t","h","i","n"," ","1","0"," ","d","a","y","s",".">>

NotesTranscript == <<"J","S",":"," ","W","e"," ","s","h","o","u","l","d"," ","p","u","b","l","i","s","h"," ","t","h","e"," ","n","o","t","e","s"," ","w","i","t","h","i","n"," ","5"," ","d","a","y","s",".">>

SampleTranscripts ==
    { SmallTalkTranscript, RepositoryDecisions, DecisionListTranscript,
      InterruptedListTranscript, AgendaTranscript, InvoiceTranscript, NotesTranscript }

\* a TextAnalyzer is about to be built on a whole transcript
InitTranscript ==
    /\ text \in SampleTranscripts
    /\ apiKey \in {<<>>, ApiKey}
    /\ ctor = "none"
    /\ employeeNames = <<>>
    /\ now \in FirstNow..(FirstNow + MaxLag)
    /\ dateContext = 0
    /\ datePc = "idle"
    /\ fragment = <<>>
    /\ resolved = <<>>
    /\ IdleMerge
    /\ IdleExtract
    /\ IdleAnalyze

NextTranscript ==
    \/ Construct
    \/ BeginExtractTasks
    \/ DecisionStep
    \/ BeginUtterances
    \/ UtteranceStep
    \/ ReturnExtractTasks

SpecTranscript == InitTranscript /\ [][NextTranscript]_vars

-----------------------------------------------------------------------------
(* Specification SpecBriefing: analyze on whole transcripts                 *)

NextBriefing ==
    \/ Construct
    \/ CallAnalyze
    \/ ProviderAnswers

SpecBriefing == InitTranscript /\ [][NextBriefing]_vars

-----------------------------------------------------------------------------
(* Claims about the per-utterance pass *)

\* the utterance matches none of the six assignment patterns
NoAssignmentPattern(d) == \A k \in 1..6 : TaskPattern(k, d.content, d.speaker) = <<>>

\* the utterance holds no task indicator: no modal verb, action verb or
\* project-management term
NoTaskIndicator(content) == \A w \in TaskIndicators : ~ContainsWord(content, w)

\* the utterance starts with a phrase of the ignore list
StartsWithIgnored(content) == \E w \in IgnorePhrases : StartsWithWord(Trim(content), w)

\* the per-utterance pass handles the utterance at index
HandlesUtterance == extractPc = "utterances" /\ index <= Len(dialogues) /\ index' = index + 1

\* C22: the per-utterance pass makes no task of an utterance that matches no
\* assignment pattern and holds no task indicator, and the fallback accepts no
\* utterance that starts with an ignored phrase or has fewer than 10
\* characters.
C22_NoTaskFromSmallTalk ==
    [][ HandlesUtterance
        => /\ (NoAssignmentPattern(dialogues[index]) /\ NoTaskIndicator(dialogues[index].content))
                 => tasks' = tasks
           /\ (/\ FirstTaskPattern(1, dialogues[index].content, dialogues[index].speaker) = <<>>
               /\ \/ StartsWithIgnored(dialogues[index].content)
                  \/ Len(Trim(dialogues[index].content)) < 10)
                 => tasks' = tasks ]_vars

\* the pass went over an utterance with no pattern and no indicator, one that
\* starts with "Thanks" and holds indicators, and a short one that holds an
\* indicator, and made no task
C22_Reached ==
    /\ extractPc = "utterances"
    /\ index = 4
    /\ NoAssignmentPattern(dialogues[1]) /\ NoTaskIndicator(dialogues[1].content)
    /\ StartsWithIgnored(dialogues[2].content) /\ ~NoTaskIndicator(dialogues[2].content)
    /\ Len(dialogues[2].content) >= 10
    /\ Len(dialogues[3].content) < 10 /\ ~NoTaskIndicator(dialogues[3].content)
    /\ ~StartsWithIgnored(dialogues[3].content)
    /\ tasks = <<>>

-----------------------------------------------------------------------------
(* Claims about the decision-list pass *)

\* what a line of the transcript says: the utterance of a speaker line, else
\* the line
LineContent(line) ==
    IF IsSpeakerLine(line) THEN Trim(SubSeq(line, 4, Len(line))) ELSE Trim(line)

\* the line introduces a decision list
IsIntroLine(line) == decisionListPattern(LineContent(line))

\* the line starts with an ordinal
IsOrdinalLine(line) == numberedTaskPattern(LineContent(line)) # <<>> /\ ~IsIntroLine(line)

\* the introductions before line i that only ordinal lines or introductions
\* separate from it
OpenIntros(lines, i) ==
    { j \in 1..(i - 1) : /\ IsIntroLine(lines[j])
                         /\ \A k \in (j + 1)..(i - 1) : IsIntroLine(lines[k]) \/ IsOrdinalLine(lines[k]) }

\* the ordinal lines that come while a decision list is open
DecisionLines(lines) == { i \in DOMAIN lines : IsOrdinalLine(lines[i]) /\ OpenIntros(lines, i) # {} }

\* the speaker who introduced the list line i belongs to
IntroSpeaker(lines, i) ==
    SubSeq(lines[CHOOSE j \in OpenIntros(lines, i) : \A m \in OpenIntros(lines, i) : m <= j], 1, 2)

\* the decision of an ordinal line: what follows the ordinal
DecisionOf(line) == numberedTaskPattern(LineContent(line))[1]

\* the decision-list pass is over
DecisionPassOver == extractPc = "decisions" /\ index > Len(dialogues)

\* a task with the decision's description is in the map, for the speaker who
\* introduced the list when the decision names no assignee
HasDecisionTask(decision, speaker) ==
    \E a \in DOMAIN tasks : \E k \in DOMAIN tasks[a] :
       /\ tasks[a][k].description = CleanDescription(decision)
       /\ DecisionAssignee(decision) = <<>>
             => tasks[a][k].assignedTo = MapAssignee(employeeNames, speaker)

\* C23: after an introduction line every line of the transcript that starts
\* with an ordinal is made a task while the list is open, and an ordinal line
\* that names no assignee is assigned to the speaker who introduced the list.
C23_OrdinalLinesBecomeTasks ==
    DecisionPassOver
    => \A i \in DecisionLines(Lines(text)) :
          ~IsDiscarded(CleanDescription(DecisionOf(Lines(text)[i])))
             => HasDecisionTask(DecisionOf(Lines(text)[i]), IntroSpeaker(Lines(text), i))

\* the decisions of the ordinal lines that come while a list is open
OpenDecisions(lines) == { CleanDescription(DecisionOf(lines[i])) : i \in DecisionLines(lines) }

\* C24: the list state is left at the first non-ordinal line after the
\* introduction: the decision-list pass makes a task only of an ordinal line
\* that no non-ordinal line separates from the last introduction, and the
\* state is entered by an introduction line only.
C24_ListLeftAtNonOrdinal ==
    extractPc = "decisions"
    => /\ \A a \in DOMAIN tasks : \A k \in DOMAIN tasks[a] :
             tasks[a][k].description \in OpenDecisions(Lines(text))
       /\ inDecisionList
             => \E j \in 1..(index - 1) : decisionListPattern(dialogues[j].content)

-----------------------------------------------------------------------------
(* Claims about the order of extractDate's patterns *)

\* the words of a fragment, in lower case
WordsOf(t) == { Lower(Split(t)[i]) : i \in DOMAIN Split(t) }

w_monday_lc == <<"m","o","n","d","a","y">>

w_may_lc == <<"m","a","y">>

\* the words every relative or month-name pattern needs one of
DateWords == { w_by, w_next, w_in, w_tomorrow, w_week, w_of, w_friday, w_monday_lc, w_may_lc }

\* C25: extractDate returns the result of the first pattern, in the order ISO
\* date, "by <weekday>", "next <weekday>", "in N units", named terms,
\* month-name dates, that occurs in the fragment: the ISO date of a fragment
\* that also holds a relative phrase, the weekday of a fragment with
\* "by Friday" and "tomorrow", and null when no pattern occurs.
C25_FirstPatternWins ==
    datePc = "returned"
    => /\ HasISODate(fragment) => resolved = <<FromISO(MatchISO(fragment))>>
       /\ (/\ ~HasISODate(fragment)
           /\ HasWordPair(fragment, w_by, w_friday)
           /\ w_tomorrow \in WordsOf(fragment))
             => resolved = <<OnOrAfter(dateContext, 5)>>
       /\ (~HasISODate(fragment) /\ WordsOf(fragment) \cap DateWords = {})
             => resolved = <<>>

-----------------------------------------------------------------------------
(* Claims about the context window *)

\* the position in the transcript's utterances of the source line of the
\* i-th candidate of identifyTasks
SourceOf(ds, i) ==
    CHOOSE p \in DOMAIN ds :
       /\ AI_IsTaskIndicator(ds[p].content)
       /\ Cardinality({q \in 1..(p - 1) : AI_IsTaskIndicator(ds[q].content)}) = i - 1

\* the contents of the utterances at most two positions from position p
TwoAround(ds, p) ==
    [ j \in 1..(Min(Len(ds), p + 2) - Max(1, p - 2) + 1) |-> ds[Max(1, p - 2) + j - 1].content ]

\* C26: a task candidate's context window holds the contents of the
\* utterances at most two positions before and after its source utterance,
\* clipped at the transcript's ends, and no other.
C26_ContextWindow ==
    analyzePc # "idle"
    => \A i \in DOMAIN candidates :
          candidates[i].context =
             TwoAround(AI_parseTranscript(text), SourceOf(AI_parseTranscript(text), i))

-----------------------------------------------------------------------------
(* Claims about the priority classifiers *)

\* a High-tier pattern matches the text
HighTier(str) ==
    \/ \E w \in HighPriorityWords : Contains(str, w)
    \/ ContainsThen(str, <<"e","n","t","e","r","p","r","i","s","e">>, <<"c","l","i","e","n","t">>)
    \/ ContainsThen(str, <<"f","i","x">>, <<"i","s","s","u","e">>)
    \/ ContainsThen(str, <<"i","s","s","u","e">>, <<"f","i","x">>)

\* a Medium-tier pattern matches the text
MediumTier(str) == \E w \in MediumPriorityWords : Contains(str, w)

\* the level of a description and its context: High before Medium before Low
TierOf(description, context) ==
    IF HighTier(description) \/ \E j \in DOMAIN context : HighTier(context[j]) THEN "High"
    ELSE IF MediumTier(description) \/ \E j \in DOMAIN context : MediumTier(context[j]) THEN "Medium"
    ELSE "Low"

\* the tasks the step pushes
PushedTasks ==
    { tasks'[a][Len(tasks'[a])] :
         a \in { b \in DOMAIN tasks' : b \notin DOMAIN tasks \/ Len(tasks'[b]) > Len(tasks[b]) } }

\* what the per-utterance pass hands to addTask for the utterance at index
HandedDescription ==
    UtteranceTask(FirstTaskPattern(1, dialogues[index].content, dialogues[index].speaker),
                  dialogues[index])[2]

\* C27: determinePriority(description, context) is High when a High-tier
\* pattern matches the description or its context, whatever else matches,
\* else Medium when a Medium-tier pattern matches them, else Low.
C27_TieredPriority ==
    [][ HandlesUtterance
        => \A t \in PushedTasks :
              t.priority = TierOf(HandedDescription, ContextWindow(dialogues, index)) ]_vars

\* the weighted keyword score: 3 for each urgent keyword in the text, 2 for
\* each high keyword and 1 for each medium keyword
WeightedScore(str) ==
    3 * Cardinality({w \in AI_UrgentKeywords : Contains(str, w)})
      + 2 * Cardinality({w \in AI_HighKeywords : Contains(str, w)})
      + Cardinality({w \in AI_MediumKeywords : Contains(str, w)})

\* the bonus of a deadline that many days away
DeadlineBonus(days) ==
    IF days <= 2 THEN 3 ELSE IF days <= 7 THEN 2 ELSE IF days <= 14 THEN 1 ELSE 0

\* the bonus of the deadline of a text, 0 when it states none
BonusOf(deadline, today) ==
    IF deadline = <<>> THEN 0 ELSE DeadlineBonus(FromISO(deadline) - today)

\* the level of a score
LevelOfScore(score) == IF score >= 3 THEN "High" ELSE IF score >= 1 THEN "Medium" ELSE "Low"

\* the AIAnalyzer writes the levels in upper case
AI_LevelName == ("High" :> "HIGH") @@ ("Medium" :> "MEDIUM") @@ ("Low" :> "LOW")

\* the level the weighted scheme gives the text of a candidate
WeightedLevel(task, today, legacy) ==
    LevelOfScore(WeightedScore(AI_TaskText(task))
                   + BonusOf(AI_extractDeadline(AI_TaskText(task), today, legacy), today))

\* the tasks analyze has made of the AIAnalyzer's
MappedTasks ==
    UNION { {employeeTaskMap[e][2][k] : k \in DOMAIN employeeTaskMap[e][2]} : e \in DOMAIN employeeTaskMap }

\* C28: the weighted scheme adds 3 for each urgent keyword, 2 for each high
\* keyword and 1 for each medium keyword of the text and a bonus of 3, 2 or 1
\* for a deadline at most 2, 7 or 14 days away; the level is High from 3 on,
\* Medium for 1 or 2 and Low for 0.
C28_WeightedPriority ==
    analyzePc = "returned"
    => \A t \in MappedTasks :
          \E i \in DOMAIN candidates : \E legacy \in LegacyParses :
             /\ candidates[i].content = t.description
             /\ t.priority = AI_LevelName[WeightedLevel(candidates[i], now, legacy)]

\* a task whose text holds one medium keyword and a deadline 5 days away, 3
\* in all, was given the high level
C28_Reached ==
    /\ analyzePc = "returned"
    /\ \E t \in MappedTasks : \E i \in DOMAIN candidates :
          /\ candidates[i].content = t.description
          /\ WeightedScore(AI_TaskText(candidates[i])) = 1
          /\ AI_extractDeadline(AI_TaskText(candidates[i]), now, <<>>) = ToFormat(now + 5)
          /\ t.priority = "HIGH"

-----------------------------------------------------------------------------
(* Claims about the assembly of the analysis *)

\* C29: the tasks of each employee of the returned analysis are a minimal
\* set: no two of them have the same normalized description, and no two
\* share 60% of the tokens of the shorter description.
C29_MinimalTaskSets ==
    analyzePc = "returned"
    => \A e \in DOMAIN analysis.employees :
          \A k \in DOMAIN analysis.employees[e].tasks :
             \A j \in DOMAIN analysis.employees[e].tasks :
                k < j
                => /\ normalizeTaskDescription(analysis.employees[e].tasks[k].description)
                         # normalizeTaskDescription(analysis.employees[e].tasks[j].description)
                   /\ ~SharesSixtyPercent(
                          normalizeTaskDescription(analysis.employees[e].tasks[k].description),
                          normalizeTaskDescription(analysis.employees[e].tasks[j].description))

\* the number of tasks the task-identification stage handed to analyze
RECURSIVE MappedCount(_, _)
MappedCount(map, k) == IF k > Len(map) THEN 0 ELSE Len(map[k][2]) + MappedCount(map, k + 1)

\* C30: every task the task-identification stage returns is in the returned
\* analysis, whatever its assignee, and statistics.totalTasks is the number
\* of tasks that stage returned.
C30_NoTaskDropped ==
    analyzePc = "returned"
    => /\ MappedTasks \subseteq ReturnedTasks
       /\ analysis.statistics.totalTasks = MappedCount(employeeTaskMap, 1)

=============================================================================
